---- MODULE Spec2Model ----
(***************************************************************************)
(* kdguard: the password generator (src/password/generator.rs), the health *)
(* check (src/password/health_check.rs) and the callers of the generator:  *)
(* main (src/main.rs) and the App of the terminal interface                *)
(* (src/tui/app.rs).                                                       *)
(*                                                                         *)
(* A character is a one-character string, a Rust String or &str a sequence *)
(* of characters.  Every entry point of Generator and HealthCheck is a     *)
(* call that starts in pc = "idle" and ends in pc = "done" with its Result *)
(* in `result`; the two retry loops take one step per iteration.  The      *)
(* callers take one step per key press (the App) or per run (main), and    *)
(* concurrent callers of generate_phrase_password one step per access to   *)
(* the OnceLock.                                                           *)
(***************************************************************************)
EXTENDS Integers, Sequences, FiniteSets, TLC

VARIABLES
    pc,           \* "idle", "random" (in the sampling loop), "deterministic" (in the expansion loop), "done"
    op,           \* the entry point of the current call: "none", "random", "pattern", "phrase", "deterministic"
    args,         \* the arguments of the current call
    attempt,      \* generate_random_password: the loop variable `attempt`
    retry,        \* generate_deterministic_password: the loop variable `retry`
    prk,          \* generate_deterministic_password: the extracted pseudorandom key
    result,       \* the Result the call returned
    draws,        \* history: number of rng.fill calls the current call has made
    expansions,   \* history: the info labels the current call has expanded, in order
    prev,         \* history: the preceding call, when it was a deterministic one
    lang,         \* CONFIG.language.lang
    fileEn,       \* the text of data/wordlist_en.txt
    fileDe,       \* the text of data/wordlist_de.txt
    WORDLIST_EN,  \* the OnceLock of get_wordlist: <<>> (unset) or <<the list>>
    WORDLIST_DE,
    COMMON_PASSWORDS,  \* the text of data/10k-most-common-passwords.txt
    lingua,       \* the localisation provider: the texts of the keys it can translate
    proc,         \* the process: "start", "tui" (in run_app), "exit", "panic"
    app,          \* the App of the terminal interface: <<>> before App::new
    config,       \* the configuration file
    out,          \* what main printed, saved and returned
    threads,      \* concurrent callers of generate_phrase_password: where each is, what it read and returned
    running,      \* per OnceLock: a thread is running the closure of get_or_init
    inits,        \* history: per OnceLock, the number of times the closure has run
    hist          \* history: keys pressed, the last key and what handle_input returned, calls of the generator the last batch made

vars == << pc, op, args, attempt, retry, prk, result, draws, expansions, prev,
           lang, fileEn, fileDe, WORDLIST_EN, WORDLIST_DE,
           COMMON_PASSWORDS, lingua, proc, app, config, out, hist,
           threads, running, inits >>

corpusVars == << lang, fileEn, fileDe, WORDLIST_EN, WORDLIST_DE >>

\* What no entry point of Generator touches.
callerVars == << COMMON_PASSWORDS, lingua, proc, app, config, out, hist >>

threadVars == << threads, running, inits >>

outerVars == << callerVars, threadVars >>

(***************************************************************************)
(* Bounds of the model.                                                    *)
(***************************************************************************)
\* The random values of one sampling pass repeat with this period.
MaxPeriod == 4

\* Templates of up to this many characters are enumerated in full.
MaxPatLen == 3

(***************************************************************************)
(* Helpers.                                                                *)
(***************************************************************************)
Range(s) == { s[i] : i \in DOMAIN s }

Min(a, b) == IF a <= b THEN a ELSE b

\* Option<T>
NONE == << >>

Some(x) == << x >>

IsSome(o) == Len(o) = 1

UnwrapOr(o, d) == IF IsSome(o) THEN o[1] ELSE d

\* Result<String, GeneratorError>; an error is its variant name, followed by
\* the character for InvalidPatternCharacter(char).  The message strings that
\* InvalidLength and RandomBytesError carry are not modelled.
NoResult == [tag |-> "None", val |-> << >>]

Ok(p) == [tag |-> "Ok", val |-> p]

Err(e) == [tag |-> "Err", val |-> e]

(***************************************************************************)
(* Character tables.                                                       *)
(***************************************************************************)
CHARSET ==
    << "a", "b", "c", "d", "e", "f", "g", "h", "i", "j", "k", "l", "m",
       "n", "o", "p", "q", "r", "s", "t", "u", "v", "w", "x", "y", "z",
       "A", "B", "C", "D", "E", "F", "G", "H", "I", "J", "K", "L", "M",
       "N", "O", "P", "Q", "R", "S", "T", "U", "V", "W", "X", "Y", "Z",
       "0", "1", "2", "3", "4", "5", "6", "7", "8", "9", "!", "@", "#",
       "$", "%", "^", "&", "*", "(", ")", "-", "_", "=", "+" >>

UPPERCASE == SubSeq(CHARSET, 27, 52)

LOWERCASE == SubSeq(CHARSET, 1, 26)

DIGITS == SubSeq(CHARSET, 53, 62)

SPECIAL == SubSeq(CHARSET, 63, 76)

\* char::is_lowercase, char::is_uppercase, char::is_ascii_digit on the
\* characters the model uses (all of them ASCII).
AsciiLowercase == Range(LOWERCASE)

AsciiUppercase == Range(UPPERCASE)

AsciiDigit == Range(DIGITS)

is_lowercase(c) == c \in AsciiLowercase

is_uppercase(c) == c \in AsciiUppercase

is_ascii_digit(c) == c \in AsciiDigit

special_chars_noPlus == {"!", "@", "#", "$", "%", "^", "&", "*", "(", ")", "-", "_", "="}

special_chars == {"!", "@", "#", "$", "%", "^", "&", "*", "(", ")", "-", "_", "=", "+"}

\* The class the if / else-if chain of is_valid_password puts c in.
CharClass(c) ==
    IF is_lowercase(c) THEN "lower"
    ELSE IF is_uppercase(c) THEN "upper"
    ELSE IF is_ascii_digit(c) THEN "digit"
    ELSE IF c \in special_chars THEN "special"
    ELSE "other"

is_valid_password_noDigit(password) ==
    LET has(cls) == \E i \in DOMAIN password : CharClass(password[i]) = cls
    IN  has("lower") /\ has("upper") /\ has("special")

is_valid_password(password) ==
    LET has(cls) == \E i \in DOMAIN password : CharClass(password[i]) = cls
    IN  has("lower") /\ has("upper") /\ has("digit") /\ has("special")

(***************************************************************************)
(* The random source.  rng.fill(&mut bytes) fills four bytes or fails.  One *)
(* sampling pass of n draws gets a sequence of n such values; the model     *)
(* takes every sequence that repeats a block of Min(n, MaxPeriod) values of *)
(* RandPool.  RandPool holds one value per character class of CHARSET:      *)
(* 65536 -> 'y', 2^32-1 -> 'R', 130 -> '2' (past the table, so the modulus  *)
(* acts), 62 -> '!'.                                                        *)
(***************************************************************************)
RandPool == { <<0, 1, 0, 0>>, <<255, 255, 255, 255>>, <<0, 0, 0, 130>>, <<0, 0, 0, 62>> }

RandSeqs(n) ==
    LET p == Min(n, MaxPeriod)
    IN  { [i \in 1..n |-> base[((i - 1) % p) + 1]] : base \in [1..p -> RandPool] }

\* (u32::from_be_bytes(b) as usize) % m.  The value itself, up to 2^32 - 1, is
\* past the integers TLC computes with, so the remainder is taken digit by
\* digit (base 256); it is the same number.
U32Mod(b, m) == ((((((b[1] % m) * 256 + b[2]) % m) * 256 + b[3]) % m) * 256 + b[4]) % m

\* charset[idx], idx as above, with 0-based indexing
PickChar(charset, bytes) == charset[U32Mod(bytes, Len(charset)) + 1]

\* One pass of n draws: the values the draws return, and the draw that fails
\* (0: none does).  A failing pass is taken once per failing draw, whatever
\* the values before it.
Tapes(n) ==
    { [vals |-> rs, failAt |-> 0] : rs \in RandSeqs(n) }
      \cup { [vals |-> [i \in 1..n |-> <<0, 0, 0, 0>>], failAt |-> k] : k \in 1..n }

(***************************************************************************)
(* generate_random_password                                                *)
(***************************************************************************)
MAX_RETRIES == 100

\* The arguments the calls are made with.
Lengths == {0, 7, 8, 9, 64, 65}

NoCall ==
    [called |-> FALSE, args |-> [seed |-> "", salt |-> NONE, service |-> NONE],
     result |-> NoResult, expansions |-> << >>]

\* `(8..=64).contains(&length)`
LengthInRange_exclusive(length) == length \in 8..63

LengthInRange(length) == length \in 8..64

SamplePass_short(length, tape) ==
    IF tape.failAt \in 1..length
    THEN [res |-> Err(<<"RandomBytesError">>), draws |-> tape.failAt]
    ELSE [res |-> Ok([i \in 1..(length - 1) |-> PickChar(CHARSET, tape.vals[i])]),
          draws |-> length]

\* The inner loop `for _ in 0..length`: the password sampled, or the error of
\* the first failing draw, with the number of draws made.
SamplePass(length, tape) ==
    IF tape.failAt \in 1..length
    THEN [res |-> Err(<<"RandomBytesError">>), draws |-> tape.failAt]
    ELSE [res |-> Ok([i \in 1..length |-> PickChar(CHARSET, tape.vals[i])]),
          draws |-> length]

\* The call, up to the loop: the length check.
RandomCall(length) ==
    /\ pc = "idle"
    /\ op' = "random"
    /\ args' = [length |-> length]
    /\ IF ~LengthInRange(length)
       THEN pc' = "done" /\ result' = Err(<<"InvalidLength">>)
       ELSE pc' = "random" /\ result' = NoResult
    /\ attempt' = 0
    /\ draws' = 0
    /\ prev' = NoCall
    /\ UNCHANGED << retry, prk, expansions, corpusVars, outerVars >>

RandomAttempt_retryOnError ==
    /\ pc = "random"
    /\ attempt < MAX_RETRIES
    /\ \E tape \in Tapes(args.length) :
         LET s == SamplePass(args.length, tape)
         IN  /\ draws' = draws + s.draws
             /\ IF s.res.tag = "Ok" /\ is_valid_password(s.res.val)
                THEN pc' = "done" /\ result' = Ok(s.res.val) /\ attempt' = attempt
                ELSE pc' = "random" /\ result' = result /\ attempt' = attempt + 1
    /\ UNCHANGED << op, args, retry, prk, expansions, prev, corpusVars, outerVars >>

\* One iteration of `for attempt in 0..MAX_RETRIES`.
RandomAttempt ==
    /\ pc = "random"
    /\ attempt < MAX_RETRIES
    /\ \E tape \in Tapes(args.length) :
         LET s == SamplePass(args.length, tape)
         IN  /\ draws' = draws + s.draws
             /\ IF s.res.tag = "Err"
                THEN pc' = "done" /\ result' = s.res /\ attempt' = attempt
                ELSE IF is_valid_password(s.res.val)
                THEN pc' = "done" /\ result' = Ok(s.res.val) /\ attempt' = attempt
                ELSE pc' = "random" /\ result' = result /\ attempt' = attempt + 1
    /\ UNCHANGED << op, args, retry, prk, expansions, prev, corpusVars, outerVars >>

\* The loop ran out.
RandomExhausted ==
    /\ pc = "random"
    /\ attempt = MAX_RETRIES
    /\ pc' = "done"
    /\ result' = Err(<<"MaxRetriesExceeded">>)
    /\ UNCHANGED << op, args, attempt, retry, prk, draws, expansions, prev, corpusVars, outerVars >>

(***************************************************************************)
(* generate_pattern_password                                               *)
(***************************************************************************)
PatternAlphabet == {"U", "L", "D", "S", "X", "u"}

\* Every template of up to MaxPatLen characters, and the templates the
\* documentation names.
Patterns ==
    UNION { [1..n -> PatternAlphabet] : n \in 0..MaxPatLen }
      \cup { <<"U", "D", "D", "L">>, <<"U", "U", "U", "U">>, <<"S", "L", "D", "U">> }

PatternCharset_swapped(c) ==
    CASE c = "U" -> LOWERCASE
      [] c = "L" -> UPPERCASE
      [] c = "D" -> DIGITS
      [] c = "S" -> SPECIAL
      [] OTHER -> << >>

\* `match c { 'U' => UPPERCASE, 'L' => LOWERCASE, 'D' => DIGITS, 'S' => SPECIAL, _ => .. }`;
\* << >> stands for the arm that returns the error.
PatternCharset(c) ==
    CASE c = "U" -> UPPERCASE
      [] c = "L" -> LOWERCASE
      [] c = "D" -> DIGITS
      [] c = "S" -> SPECIAL
      [] OTHER -> << >>

\* `for c in pattern.chars()` from the i-th character on, `password` being
\* what the iterations before it pushed and `n` the draws they made.
RECURSIVE PatternLoop(_, _, _, _, _)
PatternLoop(pattern, tape, i, password, n) ==
    IF i > Len(pattern)
    THEN [res |-> Ok(password), draws |-> n]
    ELSE LET c == pattern[i]
             charset == PatternCharset(c)
         IN  IF charset = << >>
             THEN [res |-> Err(<<"InvalidPatternCharacter", c>>), draws |-> n]
             ELSE IF tape.failAt = i
             THEN [res |-> Err(<<"RandomBytesError">>), draws |-> n + 1]
             ELSE PatternLoop(pattern, tape, i + 1,
                              Append(password, PickChar(charset, tape.vals[i])), n + 1)

generate_pattern_password_noEmptyCheck(pattern, tape) ==
    PatternLoop(pattern, tape, 1, << >>, 0)

generate_pattern_password(pattern, tape) ==
    IF pattern = << >>
    THEN [res |-> Err(<<"EmptyPattern">>), draws |-> 0]
    ELSE PatternLoop(pattern, tape, 1, << >>, 0)

PatternCall(pattern) ==
    /\ pc = "idle"
    /\ \E tape \in Tapes(Len(pattern)) :
         LET r == generate_pattern_password(pattern, tape)
         IN  /\ result' = r.res
             /\ draws' = r.draws
    /\ pc' = "done"
    /\ op' = "pattern"
    /\ args' = [pattern |-> pattern]
    /\ prev' = NoCall
    /\ UNCHANGED << attempt, retry, prk, expansions, corpusVars, outerVars >>

(***************************************************************************)
(* generate_deterministic_password                                         *)
(*                                                                         *)
(* HKDF-SHA256 (ring::hkdf) is a table of its values: HkdfTable holds the   *)
(* 32-byte output of HKDF-Expand(HKDF-Extract(salt, ikm), info) of RFC 5869 *)
(* for every (salt, ikm, info) the calls of the model reach.               *)
(***************************************************************************)
DEFAULT_LENGTH == 20

MAX_RETRIES_DETERMINISTIC == 1000

OUTPUT_SIZE == 32

\* The output length of hkdf::HKDF_SHA256, and the number of blocks of that
\* length HKDF-Expand gives at most.
HKDF_SHA256_LEN == 32

HKDF_MAX_BLOCKS == 255

Seeds == {"", "test-seed", "seed1", "seed2"}

Salts == {NONE, Some("salt1"), Some("salt2")}

Services == {NONE, Some("github"), Some("gitlab")}

\* str::as_bytes of the strings that go into the info label
as_bytes(s) ==
    CASE s = "kdguard-password" ->
           <<107, 100, 103, 117, 97, 114, 100, 45, 112, 97, 115, 115, 119, 111, 114, 100>>
      [] s = "-" -> <<45>>
      [] s = "github" -> <<103, 105, 116, 104, 117, 98>>
      [] s = "gitlab" -> <<103, 105, 116, 108, 97, 98>>
      [] s = "" -> << >>
      [] s = "a" -> <<97>>
      [] s = "a-" -> <<97, 45>>
      [] s = "-a" -> <<45, 97>>
      [] s = "--" -> <<45, 45>>
      [] s = "github-" -> <<103, 105, 116, 104, 117, 98, 45>>

\* u32::to_be_bytes
u32_to_be_bytes(n) ==
    << (n \div 16777216) % 256, (n \div 65536) % 256, (n \div 256) % 256, n % 256 >>

HkdfTable == {
    [salt |-> "kdguard", ikm |-> "test-seed",
     info |-> <<107, 100, 103, 117, 97, 114, 100, 45, 112, 97, 115, 115, 119, 111, 114, 100, 45, 0, 0, 0, 0>>,
     okm |-> <<243, 95, 22, 29, 203, 106, 32, 133, 141, 83, 102, 37, 84, 90, 248, 21, 176, 234, 246, 55, 154, 52, 128, 111, 219, 136, 135, 148, 111, 190, 145, 148>>],
    [salt |-> "kdguard", ikm |-> "test-seed",
     info |-> <<107, 100, 103, 117, 97, 114, 100, 45, 112, 97, 115, 115, 119, 111, 114, 100, 45, 103, 105, 116, 104, 117, 98, 45, 0, 0, 0, 0>>,
     okm |-> <<21, 55, 163, 40, 30, 130, 2, 86, 187, 6, 223, 54, 195, 145, 66, 55, 10, 196, 112, 181, 105, 176, 97, 214, 78, 141, 23, 246, 177, 132, 219, 241>>],
    [salt |-> "kdguard", ikm |-> "test-seed",
     info |-> <<107, 100, 103, 117, 97, 114, 100, 45, 112, 97, 115, 115, 119, 111, 114, 100, 45, 103, 105, 116, 108, 97, 98, 45, 0, 0, 0, 0>>,
     okm |-> <<7, 48, 48, 147, 14, 102, 210, 64, 191, 190, 141, 84, 95, 19, 106, 72, 255, 230, 237, 64, 35, 89, 128, 61, 50, 143, 205, 77, 164, 47, 183, 115>>],
    [salt |-> "salt1", ikm |-> "test-seed",
     info |-> <<107, 100, 103, 117, 97, 114, 100, 45, 112, 97, 115, 115, 119, 111, 114, 100, 45, 0, 0, 0, 0>>,
     okm |-> <<100, 232, 159, 7, 108, 42, 29, 117, 20, 131, 232, 212, 157, 246, 205, 73, 188, 252, 189, 130, 238, 218, 30, 110, 42, 85, 126, 246, 177, 26, 130, 63>>],
    [salt |-> "salt1", ikm |-> "test-seed",
     info |-> <<107, 100, 103, 117, 97, 114, 100, 45, 112, 97, 115, 115, 119, 111, 114, 100, 45, 103, 105, 116, 104, 117, 98, 45, 0, 0, 0, 0>>,
     okm |-> <<50, 149, 166, 236, 144, 94, 106, 174, 180, 239, 163, 210, 247, 118, 60, 19, 209, 135, 149, 54, 69, 211, 235, 189, 169, 242, 30, 90, 191, 226, 89, 151>>],
    [salt |-> "salt1", ikm |-> "test-seed",
     info |-> <<107, 100, 103, 117, 97, 114, 100, 45, 112, 97, 115, 115, 119, 111, 114, 100, 45, 103, 105, 116, 108, 97, 98, 45, 0, 0, 0, 0>>,
     okm |-> <<118, 31, 223, 186, 49, 163, 34, 101, 191, 15, 119, 155, 224, 88, 106, 39, 137, 201, 113, 175, 186, 98, 234, 166, 243, 241, 143, 200, 172, 23, 140, 10>>],
    [salt |-> "salt2", ikm |-> "test-seed",
     info |-> <<107, 100, 103, 117, 97, 114, 100, 45, 112, 97, 115, 115, 119, 111, 114, 100, 45, 0, 0, 0, 0>>,
     okm |-> <<105, 105, 145, 40, 153, 105, 154, 48, 40, 237, 32, 177, 68, 13, 119, 237, 18, 0, 236, 24, 194, 107, 9, 40, 126, 142, 134, 109, 94, 105, 41, 237>>],
    [salt |-> "salt2", ikm |-> "test-seed",
     info |-> <<107, 100, 103, 117, 97, 114, 100, 45, 112, 97, 115, 115, 119, 111, 114, 100, 45, 0, 0, 0, 1>>,
     okm |-> <<114, 82, 105, 44, 236, 103, 182, 196, 152, 78, 80, 233, 66, 118, 236, 254, 210, 188, 10, 180, 47, 160, 39, 92, 121, 95, 101, 219, 195, 86, 81, 56>>],
    [salt |-> "salt2", ikm |-> "test-seed",
     info |-> <<107, 100, 103, 117, 97, 114, 100, 45, 112, 97, 115, 115, 119, 111, 114, 100, 45, 103, 105, 116, 104, 117, 98, 45, 0, 0, 0, 0>>,
     okm |-> <<233, 187, 15, 61, 98, 81, 11, 112, 95, 31, 53, 33, 52, 121, 8, 26, 179, 104, 170, 144, 103, 103, 221, 114, 190, 181, 72, 147, 220, 149, 115, 53>>],
    [salt |-> "salt2", ikm |-> "test-seed",
     info |-> <<107, 100, 103, 117, 97, 114, 100, 45, 112, 97, 115, 115, 119, 111, 114, 100, 45, 103, 105, 116, 108, 97, 98, 45, 0, 0, 0, 0>>,
     okm |-> <<142, 52, 102, 4, 4, 136, 67, 252, 64, 52, 215, 231, 245, 232, 123, 34, 125, 199, 52, 123, 154, 118, 206, 116, 2, 125, 111, 69, 194, 120, 127, 243>>],
    [salt |-> "kdguard", ikm |-> "seed1",
     info |-> <<107, 100, 103, 117, 97, 114, 100, 45, 112, 97, 115, 115, 119, 111, 114, 100, 45, 0, 0, 0, 0>>,
     okm |-> <<95, 39, 204, 129, 183, 225, 131, 171, 97, 115, 53, 142, 212, 167, 124, 41, 223, 114, 90, 76, 42, 161, 226, 110, 242, 106, 127, 147, 208, 175, 10, 111>>],
    [salt |-> "kdguard", ikm |-> "seed1",
     info |-> <<107, 100, 103, 117, 97, 114, 100, 45, 112, 97, 115, 115, 119, 111, 114, 100, 45, 103, 105, 116, 104, 117, 98, 45, 0, 0, 0, 0>>,
     okm |-> <<147, 36, 195, 236, 225, 84, 205, 51, 173, 22, 243, 219, 195, 81, 252, 164, 205, 26, 188, 150, 217, 184, 8, 161, 236, 65, 67, 106, 130, 172, 82, 77>>],
    [salt |-> "kdguard", ikm |-> "seed1",
     info |-> <<107, 100, 103, 117, 97, 114, 100, 45, 112, 97, 115, 115, 119, 111, 114, 100, 45, 103, 105, 116, 108, 97, 98, 45, 0, 0, 0, 0>>,
     okm |-> <<28, 159, 116, 203, 155, 213, 247, 236, 115, 49, 215, 205, 12, 248, 193, 154, 8, 150, 132, 240, 188, 185, 159, 142, 238, 93, 178, 189, 82, 188, 250, 140>>],
    [salt |-> "salt1", ikm |-> "seed1",
     info |-> <<107, 100, 103, 117, 97, 114, 100, 45, 112, 97, 115, 115, 119, 111, 114, 100, 45, 0, 0, 0, 0>>,
     okm |-> <<127, 210, 8, 197, 218, 149, 26, 47, 110, 144, 137, 0, 218, 33, 162, 176, 156, 230, 111, 182, 36, 6, 14, 249, 109, 30, 136, 60, 33, 100, 27, 168>>],
    [salt |-> "salt1", ikm |-> "seed1",
     info |-> <<107, 100, 103, 117, 97, 114, 100, 45, 112, 97, 115, 115, 119, 111, 114, 100, 45, 103, 105, 116, 104, 117, 98, 45, 0, 0, 0, 0>>,
     okm |-> <<244, 40, 124, 80, 165, 36, 111, 21, 78, 118, 245, 229, 65, 110, 141, 49, 120, 3, 112, 157, 204, 234, 184, 2, 129, 110, 222, 116, 26, 166, 94, 179>>],
    [salt |-> "salt1", ikm |-> "seed1",
     info |-> <<107, 100, 103, 117, 97, 114, 100, 45, 112, 97, 115, 115, 119, 111, 114, 100, 45, 103, 105, 116, 104, 117, 98, 45, 0, 0, 0, 1>>,
     okm |-> <<41, 133, 211, 155, 36, 226, 129, 91, 201, 252, 249, 19, 75, 63, 32, 31, 182, 238, 173, 213, 111, 41, 26, 86, 68, 69, 107, 201, 91, 44, 222, 67>>],
    [salt |-> "salt1", ikm |-> "seed1",
     info |-> <<107, 100, 103, 117, 97, 114, 100, 45, 112, 97, 115, 115, 119, 111, 114, 100, 45, 103, 105, 116, 108, 97, 98, 45, 0, 0, 0, 0>>,
     okm |-> <<104, 30, 230, 9, 165, 167, 176, 249, 46, 26, 199, 215, 125, 32, 91, 225, 215, 29, 69, 211, 128, 192, 116, 3, 250, 31, 141, 203, 38, 124, 104, 127>>],
    [salt |-> "salt2", ikm |-> "seed1",
     info |-> <<107, 100, 103, 117, 97, 114, 100, 45, 112, 97, 115, 115, 119, 111, 114, 100, 45, 0, 0, 0, 0>>,
     okm |-> <<6, 132, 184, 93, 59, 56, 38, 67, 68, 157, 211, 76, 202, 197, 122, 109, 86, 195, 15, 196, 114, 173, 249, 164, 216, 119, 237, 209, 140, 207, 70, 223>>],
    [salt |-> "salt2", ikm |-> "seed1",
     info |-> <<107, 100, 103, 117, 97, 114, 100, 45, 112, 97, 115, 115, 119, 111, 114, 100, 45, 103, 105, 116, 104, 117, 98, 45, 0, 0, 0, 0>>,
     okm |-> <<42, 75, 84, 101, 88, 135, 249, 105, 102, 229, 141, 79, 167, 205, 237, 250, 8, 163, 78, 154, 59, 137, 112, 9, 121, 94, 169, 229, 198, 163, 75, 71>>],
    [salt |-> "salt2", ikm |-> "seed1",
     info |-> <<107, 100, 103, 117, 97, 114, 100, 45, 112, 97, 115, 115, 119, 111, 114, 100, 45, 103, 105, 116, 108, 97, 98, 45, 0, 0, 0, 0>>,
     okm |-> <<110, 42, 23, 47, 98, 157, 178, 103, 55, 3, 139, 165, 212, 204, 0, 210, 10, 85, 231, 60, 96, 6, 240, 105, 101, 33, 186, 134, 44, 216, 111, 202>>],
    [salt |-> "kdguard", ikm |-> "seed2",
     info |-> <<107, 100, 103, 117, 97, 114, 100, 45, 112, 97, 115, 115, 119, 111, 114, 100, 45, 0, 0, 0, 0>>,
     okm |-> <<107, 113, 115, 111, 164, 209, 5, 9, 8, 58, 5, 166, 154, 208, 80, 170, 61, 94, 91, 204, 81, 17, 145, 211, 17, 71, 20, 192, 65, 21, 219, 88>>],
    [salt |-> "kdguard", ikm |-> "seed2",
     info |-> <<107, 100, 103, 117, 97, 114, 100, 45, 112, 97, 115, 115, 119, 111, 114, 100, 45, 0, 0, 0, 1>>,
     okm |-> <<65, 113, 158, 130, 163, 237, 123, 170, 98, 12, 107, 46, 55, 154, 224, 146, 181, 19, 139, 107, 45, 107, 52, 62, 78, 224, 182, 2, 146, 116, 152, 10>>],
    [salt |-> "kdguard", ikm |-> "seed2",
     info |-> <<107, 100, 103, 117, 97, 114, 100, 45, 112, 97, 115, 115, 119, 111, 114, 100, 45, 103, 105, 116, 104, 117, 98, 45, 0, 0, 0, 0>>,
     okm |-> <<149, 60, 32, 106, 55, 36, 244, 30, 230, 56, 195, 8, 191, 239, 226, 28, 39, 40, 80, 226, 6, 41, 152, 6, 57, 71, 219, 216, 94, 175, 129, 85>>],
    [salt |-> "kdguard", ikm |-> "seed2",
     info |-> <<107, 100, 103, 117, 97, 114, 100, 45, 112, 97, 115, 115, 119, 111, 114, 100, 45, 103, 105, 116, 108, 97, 98, 45, 0, 0, 0, 0>>,
     okm |-> <<130, 110, 235, 225, 228, 149, 7, 100, 86, 243, 80, 229, 133, 89, 251, 115, 155, 129, 230, 7, 198, 227, 59, 169, 211, 188, 138, 139, 70, 211, 14, 226>>],
    [salt |-> "salt1", ikm |-> "seed2",
     info |-> <<107, 100, 103, 117, 97, 114, 100, 45, 112, 97, 115, 115, 119, 111, 114, 100, 45, 0, 0, 0, 0>>,
     okm |-> <<11, 51, 148, 255, 112, 1, 68, 134, 19, 121, 244, 64, 27, 242, 199, 168, 108, 173, 208, 239, 62, 161, 117, 23, 25, 235, 212, 232, 105, 112, 194, 173>>],
    [salt |-> "salt1", ikm |-> "seed2",
     info |-> <<107, 100, 103, 117, 97, 114, 100, 45, 112, 97, 115, 115, 119, 111, 114, 100, 45, 103, 105, 116, 104, 117, 98, 45, 0, 0, 0, 0>>,
     okm |-> <<102, 208, 68, 34, 209, 108, 211, 209, 106, 244, 30, 8, 122, 144, 242, 98, 215, 131, 147, 178, 118, 243, 143, 43, 218, 191, 55, 102, 240, 169, 65, 184>>],
    [salt |-> "salt1", ikm |-> "seed2",
     info |-> <<107, 100, 103, 117, 97, 114, 100, 45, 112, 97, 115, 115, 119, 111, 114, 100, 45, 103, 105, 116, 108, 97, 98, 45, 0, 0, 0, 0>>,
     okm |-> <<220, 26, 90, 11, 69, 150, 141, 69, 76, 29, 224, 55, 21, 119, 34, 113, 243, 103, 83, 149, 252, 66, 247, 232, 155, 94, 117, 231, 85, 218, 49, 199>>],
    [salt |-> "salt2", ikm |-> "seed2",
     info |-> <<107, 100, 103, 117, 97, 114, 100, 45, 112, 97, 115, 115, 119, 111, 114, 100, 45, 0, 0, 0, 0>>,
     okm |-> <<129, 105, 11, 30, 139, 125, 37, 80, 34, 97, 227, 119, 172, 56, 135, 201, 213, 17, 171, 238, 52, 170, 111, 77, 185, 191, 172, 235, 213, 244, 126, 34>>],
    [salt |-> "salt2", ikm |-> "seed2",
     info |-> <<107, 100, 103, 117, 97, 114, 100, 45, 112, 97, 115, 115, 119, 111, 114, 100, 45, 103, 105, 116, 104, 117, 98, 45, 0, 0, 0, 0>>,
     okm |-> <<185, 51, 55, 26, 236, 57, 158, 30, 77, 23, 37, 59, 151, 12, 41, 30, 219, 165, 237, 9, 184, 155, 211, 190, 198, 54, 79, 94, 11, 52, 253, 136>>],
    [salt |-> "salt2", ikm |-> "seed2",
     info |-> <<107, 100, 103, 117, 97, 114, 100, 45, 112, 97, 115, 115, 119, 111, 114, 100, 45, 103, 105, 116, 108, 97, 98, 45, 0, 0, 0, 0>>,
     okm |-> <<107, 137, 218, 104, 117, 174, 72, 126, 75, 168, 167, 131, 37, 17, 13, 132, 112, 234, 92, 168, 61, 241, 26, 252, 37, 79, 206, 85, 34, 100, 31, 29>>] }

\* hkdf::Salt::new(HKDF_SHA256, salt).extract(ikm): the key, named by what it
\* was extracted from.
NoPrk == [salt |-> "", ikm |-> ""]

HkdfExtract(salt, ikm) == [salt |-> salt, ikm |-> ikm]

\* prk.expand(&[info], HKDF_SHA256): fails when the length asked for is more
\* than 255 blocks.
HkdfExpandOk(len) == len <= HKDF_MAX_BLOCKS * HKDF_SHA256_LEN

\* okm.fill(output): fails when the output is not of the length asked for;
\* otherwise the bytes of the expansion.
HkdfFillOk(len, size) == size = len

HkdfOkm(key, info) ==
    (CHOOSE row \in HkdfTable :
        row.salt = key.salt /\ row.ikm = key.ikm /\ row.info = info).okm

\* The info label of one retry.
InfoLabel_noService(service, r) ==
    as_bytes("kdguard-password") \o as_bytes("-") \o u32_to_be_bytes(r)

InfoLabel_noSeparator(service, r) ==
    as_bytes("kdguard-password")
      \o (IF IsSome(service) THEN as_bytes(service[1]) ELSE << >>)
      \o u32_to_be_bytes(r)

InfoLabel(service, r) ==
    as_bytes("kdguard-password")
      \o (IF IsSome(service) THEN as_bytes("-") \o as_bytes(service[1]) ELSE << >>)
      \o as_bytes("-")
      \o u32_to_be_bytes(r)

\* The services and retry counters the info label is built for: no service,
\* the empty service, services with "-" at either end, a service that is
\* another one followed by "-"; every retry counter of the loop against the
\* counter whose last byte is the byte of "-".
LabelServices ==
    { NONE, Some(""), Some("-"), Some("--"), Some("a"), Some("a-"), Some("-a"),
      Some("github"), Some("github-") }

LabelRetries == {45}

LabelPairs ==
    { << [service |-> service, retry |-> r], [service |-> other, retry |-> s] >> :
        service \in LabelServices, r \in LabelRetries,
        other \in LabelServices, s \in 0..(MAX_RETRIES_DETERMINISTIC - 1) }

\* The info labels of the loop body, built for two pairs of service and
\* retry counter.
InfoLabels ==
    /\ pc = "idle"
    /\ op = "none"
    /\ pc' = "done"
    /\ op' = "info_label"
    /\ expansions' = << InfoLabel(args[1].service, args[1].retry),
                        InfoLabel(args[2].service, args[2].retry) >>
    /\ UNCHANGED << args, attempt, retry, prk, result, draws, prev, corpusVars, outerVars >>

DeterministicCandidate_noOffset(output, r) ==
    [i \in 1..DEFAULT_LENGTH |->
        CHARSET[(output[((i - 1) % OUTPUT_SIZE) + 1] % Len(CHARSET)) + 1]]

\* The 20 characters taken from the 32 bytes of one expansion.
DeterministicCandidate(output, r) ==
    LET offset == (r * 13) % OUTPUT_SIZE
    IN  [i \in 1..DEFAULT_LENGTH |->
            CHARSET[(output[((offset + (i - 1)) % OUTPUT_SIZE) + 1] % Len(CHARSET)) + 1]]

\* `salt.unwrap_or("kdguard")`
EffectiveSalt_stale(salt) ==
    IF prev.called THEN UnwrapOr(prev.args.salt, "kdguard") ELSE UnwrapOr(salt, "kdguard")

EffectiveSalt(salt) == UnwrapOr(salt, "kdguard")

DeterministicCall_lateCheck(seed, salt, service) ==
    /\ pc = "idle"
    /\ op' = "deterministic"
    /\ args' = [seed |-> seed, salt |-> salt, service |-> service]
    /\ prk' = HkdfExtract(EffectiveSalt(salt), seed)
    /\ IF seed = ""
       THEN pc' = "done" /\ result' = Err(<<"EmptySeed">>)
       ELSE pc' = "deterministic" /\ result' = NoResult
    /\ retry' = 0
    /\ expansions' = << >>
    /\ draws' = 0
    /\ UNCHANGED << attempt, prev, corpusVars, outerVars >>

\* The call, up to the loop: the seed check and the extraction.
DeterministicCall(seed, salt, service) ==
    /\ pc = "idle"
    /\ op' = "deterministic"
    /\ args' = [seed |-> seed, salt |-> salt, service |-> service]
    /\ IF seed = ""
       THEN /\ pc' = "done"
            /\ result' = Err(<<"EmptySeed">>)
            /\ prk' = prk
       ELSE /\ pc' = "deterministic"
            /\ result' = NoResult
            /\ prk' = HkdfExtract(EffectiveSalt(salt), seed)
    /\ retry' = 0
    /\ expansions' = << >>
    /\ draws' = 0
    /\ UNCHANGED << attempt, prev, corpusVars, outerVars >>

\* `for retry in 0..MAX_RETRIES`: one iteration, or the end of the loop.
DeterministicRetry ==
    /\ pc = "deterministic"
    /\ IF retry < MAX_RETRIES_DETERMINISTIC
       THEN LET info == InfoLabel(args.service, retry)
            IN  IF ~HkdfExpandOk(HKDF_SHA256_LEN)
                THEN /\ pc' = "done"
                     /\ result' = Err(<<"HkdfExpandError">>)
                     /\ UNCHANGED << retry, expansions >>
                ELSE IF ~HkdfFillOk(HKDF_SHA256_LEN, OUTPUT_SIZE)
                THEN /\ pc' = "done"
                     /\ result' = Err(<<"HkdfFillError">>)
                     /\ expansions' = Append(expansions, info)
                     /\ retry' = retry
                ELSE LET password == DeterministicCandidate(HkdfOkm(prk, info), retry)
                     IN  /\ expansions' = Append(expansions, info)
                         /\ IF is_valid_password(password)
                            THEN pc' = "done" /\ result' = Ok(password) /\ retry' = retry
                            ELSE pc' = pc /\ result' = result /\ retry' = retry + 1
       ELSE /\ pc' = "done"
            /\ result' = Err(<<"MaxRetriesExceeded">>)
            /\ UNCHANGED << retry, expansions >>
    /\ UNCHANGED << op, args, attempt, prk, draws, prev, corpusVars, outerVars >>

(***************************************************************************)
(* The caller takes the result; the locals of the call are gone.           *)
(***************************************************************************)
Return ==
    /\ pc = "done"
    /\ pc' = "idle"
    /\ prev' = IF op = "deterministic"
               THEN [called |-> TRUE, args |-> args, result |-> result,
                     expansions |-> expansions]
               ELSE NoCall
    /\ op' = "none"
    /\ args' = << >>
    /\ attempt' = 0
    /\ retry' = 0
    /\ prk' = NoPrk
    /\ result' = NoResult
    /\ draws' = 0
    /\ expansions' = << >>
    /\ UNCHANGED << corpusVars, outerVars >>

(***************************************************************************)
(* get_wordlist and generate_phrase_password                               *)
(***************************************************************************)
\* str::lines: the text is cut after every "\n"; a piece loses its "\n" and
\* then a "\r" before it; a last piece with no "\n" is kept as it is.
RECURSIVE LinesFrom(_, _, _)
LinesFrom(text, i, piece) ==
    IF i > Len(text)
    THEN IF piece = << >> THEN << >> ELSE << piece >>
    ELSE IF text[i] = "\n"
    THEN LET line == IF piece # << >> /\ piece[Len(piece)] = "\r"
                     THEN SubSeq(piece, 1, Len(piece) - 1)
                     ELSE piece
         IN  << line >> \o LinesFrom(text, i + 1, << >>)
    ELSE LinesFrom(text, i + 1, Append(piece, text[i]))

lines(text) == LinesFrom(text, 1, << >>)

\* char::is_whitespace on the characters the model uses
is_whitespace(c) == c \in {" ", "\t", "\n", "\r"}

\* str::trim
RECURSIVE trim(_)
trim(line) ==
    IF line = << >> THEN line
    ELSE IF is_whitespace(line[1]) THEN trim(Tail(line))
    ELSE IF is_whitespace(line[Len(line)]) THEN trim(SubSeq(line, 1, Len(line) - 1))
    ELSE line

\* include_str!(..).lines().filter(|line| !line.trim().is_empty()).collect()
RECURSIVE FilterLines(_)
FilterLines(ls) ==
    IF ls = << >> THEN << >>
    ELSE (IF ~(trim(Head(ls)) = << >>) THEN << Head(ls) >> ELSE << >>)
           \o FilterLines(Tail(ls))

LoadWordlist(text) == FilterLines(lines(text))

\* OnceLock::get_or_init
get_or_init(cell, value) == IF cell = << >> THEN << value >> ELSE cell

\* The texts the two word files are taken from: two words; no text at all;
\* blank lines only; "\r\n" endings, an empty line, a padded line, a word
\* with a hyphen and no final line ending; three words.
FileTexts ==
    << << "a", "b", "\n", "c", "\n" >>,
       << >>,
       << " ", "\n", "\n", "\t", "\r", "\n" >>,
       << "a", "b", "\r", "\n", "\r", "\n", " ", "d", " ", "\n", "e", "-", "f" >>,
       << "x", "\n", "y", "\n", "z" >> >>

\* (wordlist_en.txt, wordlist_de.txt)
FilePairs == { <<1, 5>>, <<2, 3>>, <<3, 1>>, <<4, 2>> }

Langs == {"en", "de", "fr"}

WordCounts == {0, 2, 3, 5, 20, 21}

\* `(3..=20).contains(&words_count)`
WordCountInRange_exclusive(words_count) == words_count \in 3..19

WordCountInRange(words_count) == words_count \in 3..20

\* `if i > 0 { phrase.push('-'); } phrase.push_str(words[idx]);`
PushWord_always(phrase, i, word) == Append(phrase, "-") \o word

PushWord(phrase, i, word) == (IF i > 0 THEN Append(phrase, "-") ELSE phrase) \o word

\* `for i in 0..words_count` from iteration i on, `phrase` being what the
\* iterations before it pushed and `n` the draws they made.
RECURSIVE PhraseLoop(_, _, _, _, _, _)
PhraseLoop(words, words_count, tape, i, phrase, n) ==
    IF i >= words_count
    THEN [res |-> Ok(phrase), draws |-> n]
    ELSE IF tape.failAt = i + 1
    THEN [res |-> Err(<<"RandomBytesError">>), draws |-> n + 1]
    ELSE LET idx == U32Mod(tape.vals[i + 1], Len(words))
         IN  PhraseLoop(words, words_count, tape, i + 1,
                        PushWord(phrase, i, words[idx + 1]),
                        n + 1)

PhraseCall(words_count) ==
    /\ pc = "idle"
    /\ pc' = "done"
    /\ op' = "phrase"
    /\ args' = [words_count |-> words_count]
    /\ IF ~WordCountInRange(words_count)
       THEN /\ result' = Err(<<"InvalidWordCount">>)
            /\ draws' = 0
            /\ UNCHANGED << WORDLIST_EN, WORDLIST_DE >>
       ELSE LET de == lang = "de"
                cell == IF de
                        THEN get_or_init(WORDLIST_DE, LoadWordlist(fileDe))
                        ELSE get_or_init(WORDLIST_EN, LoadWordlist(fileEn))
                words == cell[1]
            IN  /\ WORDLIST_DE' = IF de THEN cell ELSE WORDLIST_DE
                /\ WORDLIST_EN' = IF de THEN WORDLIST_EN ELSE cell
                /\ IF words = << >>
                   THEN /\ result' = Err(<<"EmptyWordlist">>)
                        /\ draws' = 0
                   ELSE \E tape \in Tapes(words_count) :
                          LET r == PhraseLoop(words, words_count, tape, 0, << >>, 0)
                          IN  /\ result' = r.res
                              /\ draws' = r.draws
    /\ prev' = NoCall
    /\ UNCHANGED << attempt, retry, prk, expansions, lang, fileEn, fileDe, outerVars >>

(***************************************************************************)
(* HealthCheck (src/password/health_check.rs)                              *)
(*                                                                         *)
(* The localisation provider.  Lingua::t(key, &[]) gives the text of the   *)
(* key in the loaded language, or an error when the provider holds no such *)
(* key (it was never initialised, or the language file lacks the key).     *)
(* `lingua` is the table the provider holds.  unwrap() turns the error     *)
(* into a panic, which ends the call.                                      *)
(***************************************************************************)
Lingua_t(key) ==
    IF key \in DOMAIN lingua THEN Ok(lingua[key]) ELSE Err(<< "LinguaError", key >>)

Panic(e) == [tag |-> "Panic", val |-> e]

unwrap(r) == IF r.tag = "Ok" THEN r ELSE Panic(r.val)

\* The English texts (those of src/health_check.rs, the variant without the
\* provider; the last two keys are those of src/main.rs and src/config.rs).
LinguaEn ==
    [k \in { "commands.check.score_rating.weak",
             "commands.check.score_rating.medium",
             "commands.check.score_rating.strong",
             "commands.check.score_rating.very_strong",
             "commands.check.warnings.password_too_short",
             "commands.check.suggestions.password_to_short",
             "commands.check.warnings.no_lowercase",
             "commands.check.suggestions.add_lowercase",
             "commands.check.warnings.no_uppercase",
             "commands.check.suggestions.add_uppercase",
             "commands.check.warnings.no_digits",
             "commands.check.suggestions.add_digits",
             "commands.check.warnings.no_special",
             "commands.check.suggestions.add_special",
             "commands.check.warnings.common_patterns",
             "commands.check.suggestions.avoid_simple_sequences",
             "commands.check.warnings.repetitions",
             "commands.check.suggestions.avoid_repetitions",
             "commands.generate.title",
             "config.edit.success" } |->
       CASE k = "commands.check.score_rating.weak" -> "weak"
         [] k = "commands.check.score_rating.medium" -> "medium"
         [] k = "commands.check.score_rating.strong" -> "strong"
         [] k = "commands.check.score_rating.very_strong" -> "very strong"
         [] k = "commands.check.warnings.password_too_short" -> "Password is too short"
         [] k = "commands.check.suggestions.password_to_short" -> "Use at least 8 characters"
         [] k = "commands.check.warnings.no_lowercase" -> "No lowercase letters present"
         [] k = "commands.check.suggestions.add_lowercase" -> "Add lowercase letters"
         [] k = "commands.check.warnings.no_uppercase" -> "No uppercase letters present"
         [] k = "commands.check.suggestions.add_uppercase" -> "Add uppercase letters"
         [] k = "commands.check.warnings.no_digits" -> "No digits present"
         [] k = "commands.check.suggestions.add_digits" -> "Add digits"
         [] k = "commands.check.warnings.no_special" -> "No special characters present"
         [] k = "commands.check.suggestions.add_special" -> "Add special characters"
         [] k = "commands.check.warnings.common_patterns" -> "Common patterns detected"
         [] k = "commands.check.suggestions.avoid_simple_sequences" ->
                "Avoid simple sequences like '123' or 'abc'"
         [] k = "commands.check.warnings.repetitions" -> "Repetitions detected"
         [] k = "commands.check.suggestions.avoid_repetitions" -> "Avoid character repetitions"
         [] k = "commands.generate.title" -> "Generated passwords"
         [] k = "config.edit.success" -> "Configuration updated"]

\* A provider that holds the texts of the keys in `keys` only.
LinguaWith(keys) == [k \in keys |-> LinguaEn[k]]

\* The states of the provider: the language loaded; never initialised; a
\* language file without the text of one rating; one without the text of
\* the last suggestion.
LinguaStates ==
    { LinguaEn,
      LinguaWith({}),
      LinguaWith(DOMAIN LinguaEn \ {"commands.check.score_rating.medium"}),
      LinguaWith(DOMAIN LinguaEn \ {"commands.check.suggestions.avoid_repetitions"}) }

(***************************************************************************)
(* The parts of the score.                                                 *)
(***************************************************************************)
calculate_length_score_over(length) ==
    IF length <= 7 THEN 0
    ELSE IF length <= 12 THEN 10
    ELSE IF length <= 16 THEN 20
    ELSE 30

calculate_length_score_lateStart(length) ==
    IF length <= 8 THEN 0
    ELSE IF length <= 12 THEN 10
    ELSE IF length <= 16 THEN 20
    ELSE 25

calculate_length_score(length) ==
    IF length <= 7 THEN 0
    ELSE IF length <= 12 THEN 10
    ELSE IF length <= 16 THEN 20
    ELSE 25

\* for c in password.chars(): the four flags after the characters from i on.
RECURSIVE DiversityLoop(_, _, _)
DiversityLoop(password, i, flags) ==
    IF i > Len(password) THEN flags
    ELSE LET c == password[i]
         IN  DiversityLoop(password, i + 1,
               IF is_lowercase(c) THEN [flags EXCEPT !.has_lowercase = TRUE]
               ELSE IF is_uppercase(c) THEN [flags EXCEPT !.has_uppercase = TRUE]
               ELSE IF is_ascii_digit(c) THEN [flags EXCEPT !.has_digit = TRUE]
               ELSE IF c \in special_chars THEN [flags EXCEPT !.has_special = TRUE]
               ELSE flags)

NoFlags ==
    [has_lowercase |-> FALSE, has_uppercase |-> FALSE, has_digit |-> FALSE,
     has_special |-> FALSE]

calculate_diversity_score_noBonus(password) ==
    LET f == DiversityLoop(password, 1, NoFlags)
        score == (IF f.has_lowercase THEN 5 ELSE 0) + (IF f.has_uppercase THEN 5 ELSE 0)
                 + (IF f.has_digit THEN 5 ELSE 0) + (IF f.has_special THEN 5 ELSE 0)
    IN  [score |-> score, flags |-> f]

calculate_diversity_score(password) ==
    LET f == DiversityLoop(password, 1, NoFlags)
        score == (IF f.has_lowercase THEN 5 ELSE 0) + (IF f.has_uppercase THEN 5 ELSE 0)
                 + (IF f.has_digit THEN 5 ELSE 0) + (IF f.has_special THEN 5 ELSE 0)
                 + (IF f.has_lowercase /\ f.has_uppercase /\ f.has_digit /\ f.has_special
                    THEN 10 ELSE 0)
    IN  [score |-> score, flags |-> f]

\* char::to_lowercase on the letters of the model.
to_lowercase_char(c) ==
    IF c \in AsciiUppercase
    THEN LOWERCASE[CHOOSE i \in DOMAIN UPPERCASE : UPPERCASE[i] = c]
    ELSE c

to_lowercase(s) == [i \in DOMAIN s |-> to_lowercase_char(s[i])]

\* str::contains(&str): the empty needle is found in every haystack.
contains(haystack, needle) ==
    \E i \in 1..(Len(haystack) - Len(needle) + 1) :
        SubSeq(haystack, i, i + Len(needle) - 1) = needle

\* What one corpus line is compared by.
CommonMatch_oneWay(password_lower, common_pw) ==
    \/ password_lower = common_pw
    \/ contains(password_lower, common_pw)

CommonMatch(password_lower, common_pw) ==
    \/ password_lower = common_pw
    \/ contains(password_lower, common_pw)
    \/ contains(common_pw, password_lower)

\* for line in COMMON_PASSWORDS.lines(), from line i on.
RECURSIVE CommonLoop(_, _, _)
CommonLoop(ls, i, password_lower) ==
    IF i > Len(ls) THEN FALSE
    ELSE LET common_pw == to_lowercase(trim(ls[i]))
         IN  IF common_pw = << >> THEN CommonLoop(ls, i + 1, password_lower)
             ELSE IF CommonMatch(password_lower, common_pw) THEN TRUE
             ELSE CommonLoop(ls, i + 1, password_lower)

has_common_patterns(password) ==
    CommonLoop(lines(COMMON_PASSWORDS), 1, to_lowercase(password))

has_repetitions_pair(password) ==
    IF Len(password) < 3 THEN FALSE
    ELSE \E i \in 1..(Len(password) - 2) : password[i] = password[i + 1]

has_repetitions(password) ==
    IF Len(password) < 3 THEN FALSE
    ELSE \E i \in 1..(Len(password) - 2) :
            password[i] = password[i + 1] /\ password[i + 1] = password[i + 2]

calculate_complexity_score(password) ==
    (IF ~has_common_patterns(password) THEN 15 ELSE 0)
    + (IF ~has_repetitions(password) THEN 10 ELSE 0)

\* f64::log2 of the sizes a character set can have, in millionths of a bit
\* (rounded down).  No size is a power of two, so no product of a length and
\* a logarithm is a whole number of bits, and the comparisons with 30.0,
\* 40.0 and 50.0 come out as in f64 for every length below 200.
log2(n) ==
    CASE n = 10 -> 3321928
      [] n = 14 -> 3807354
      [] n = 24 -> 4584962
      [] n = 26 -> 4700439
      [] n = 36 -> 5169925
      [] n = 40 -> 5321928
      [] n = 50 -> 5643856
      [] n = 52 -> 5700439
      [] n = 62 -> 5954196
      [] n = 66 -> 6044394
      [] n = 76 -> 6247927

\* for c in password.chars(): charset_size and the flags after the
\* characters from i on.
RECURSIVE EntropyLoop(_, _, _)
EntropyLoop(password, i, st) ==
    IF i > Len(password) THEN st
    ELSE LET c == password[i]
         IN  EntropyLoop(password, i + 1,
               IF is_lowercase(c) /\ ~st.has_lowercase
               THEN [st EXCEPT !.charset_size = @ + 26, !.has_lowercase = TRUE]
               ELSE IF is_uppercase(c) /\ ~st.has_uppercase
               THEN [st EXCEPT !.charset_size = @ + 26, !.has_uppercase = TRUE]
               ELSE IF is_ascii_digit(c) /\ ~st.has_digit
               THEN [st EXCEPT !.charset_size = @ + 10, !.has_digit = TRUE]
               ELSE IF c \in special_chars /\ ~st.has_special
               THEN [st EXCEPT !.charset_size = @ + Cardinality(special_chars),
                               !.has_special = TRUE]
               ELSE st)

EntropyBand_wide(entropy) ==
    IF entropy < 30 * 1000000 THEN 5
    ELSE IF entropy < 40 * 1000000 THEN 10
    ELSE IF entropy < 60 * 1000000 THEN 15
    ELSE 20

\* The entropy is in millionths of a bit.
EntropyBand(entropy) ==
    IF entropy < 30 * 1000000 THEN 5
    ELSE IF entropy < 40 * 1000000 THEN 10
    ELSE IF entropy < 50 * 1000000 THEN 15
    ELSE 20

calculate_entropy_score_noGuard(password) ==
    LET st == EntropyLoop(password, 1,
                [charset_size |-> 0, has_lowercase |-> FALSE, has_uppercase |-> FALSE,
                 has_digit |-> FALSE, has_special |-> FALSE])
        entropy == IF st.charset_size = 0 THEN 0
                   ELSE Len(password) * log2(st.charset_size)
    IN  [score |-> EntropyBand(entropy), entropy |-> entropy]

calculate_entropy_score(password) ==
    LET st == EntropyLoop(password, 1,
                [charset_size |-> 0, has_lowercase |-> FALSE, has_uppercase |-> FALSE,
                 has_digit |-> FALSE, has_special |-> FALSE])
    IN  IF st.charset_size = 0 THEN [score |-> 0, entropy |-> 0]
        ELSE LET entropy == Len(password) * log2(st.charset_size)
             IN  [score |-> EntropyBand(entropy), entropy |-> entropy]

score_to_rating_exclusive(score) ==
    IF score < 40 THEN unwrap(Lingua_t("commands.check.score_rating.weak"))
    ELSE IF score < 60 THEN unwrap(Lingua_t("commands.check.score_rating.medium"))
    ELSE IF score < 80 THEN unwrap(Lingua_t("commands.check.score_rating.strong"))
    ELSE unwrap(Lingua_t("commands.check.score_rating.very_strong"))

\* The String returned, or the panic of unwrap().
score_to_rating(score) ==
    IF score <= 40 THEN unwrap(Lingua_t("commands.check.score_rating.weak"))
    ELSE IF score <= 60 THEN unwrap(Lingua_t("commands.check.score_rating.medium"))
    ELSE IF score <= 80 THEN unwrap(Lingua_t("commands.check.score_rating.strong"))
    ELSE unwrap(Lingua_t("commands.check.score_rating.very_strong"))

(***************************************************************************)
(* analyze_password                                                        *)
(***************************************************************************)
\* warnings and suggestions as Vec::new() left them; panic: the panic that
\* ended the call, if one did.
NoLists == [warnings |-> << >>, suggestions |-> << >>, panic |-> NONE]

PushIf_warningOnly(cond, acc, warning, suggestion) ==
    IF ~cond \/ IsSome(acc.panic) THEN acc
    ELSE LET w == unwrap(Lingua_t(warning))
         IN  IF w.tag = "Panic" THEN [acc EXCEPT !.panic = Some(w)]
             ELSE [acc EXCEPT !.warnings = Append(@, w.val)]

\* if cond { warnings.push(Lingua::t(warning, &[]).unwrap());
\*           suggestions.push(Lingua::t(suggestion, &[]).unwrap()); }
PushIf(cond, acc, warning, suggestion) ==
    IF ~cond \/ IsSome(acc.panic) THEN acc
    ELSE LET w == unwrap(Lingua_t(warning))
         IN  IF w.tag = "Panic" THEN [acc EXCEPT !.panic = Some(w)]
             ELSE LET s == unwrap(Lingua_t(suggestion))
                  IN  IF s.tag = "Panic"
                      THEN [acc EXCEPT !.warnings = Append(@, w.val), !.panic = Some(s)]
                      ELSE [acc EXCEPT !.warnings = Append(@, w.val),
                                       !.suggestions = Append(@, s.val)]

\* Ok(the PasswordAnalysis), or the panic that ended the call.
analyze_password(password) ==
    LET length == Len(password)
        length_score == calculate_length_score(length)
        d == calculate_diversity_score(password)
        complexity_score == calculate_complexity_score(password)
        e == calculate_entropy_score(password)
        total == length_score + d.score + complexity_score + e.score
        rating == score_to_rating(total)
        l1 == PushIf(length < 8, NoLists,
                     "commands.check.warnings.password_too_short",
                     "commands.check.suggestions.password_to_short")
        l2 == PushIf(~d.flags.has_lowercase, l1,
                     "commands.check.warnings.no_lowercase",
                     "commands.check.suggestions.add_lowercase")
        l3 == PushIf(~d.flags.has_uppercase, l2,
                     "commands.check.warnings.no_uppercase",
                     "commands.check.suggestions.add_uppercase")
        l4 == PushIf(~d.flags.has_digit, l3,
                     "commands.check.warnings.no_digits",
                     "commands.check.suggestions.add_digits")
        l5 == PushIf(~d.flags.has_special, l4,
                     "commands.check.warnings.no_special",
                     "commands.check.suggestions.add_special")
        l6 == PushIf(has_common_patterns(password), l5,
                     "commands.check.warnings.common_patterns",
                     "commands.check.suggestions.avoid_simple_sequences")
        l7 == PushIf(has_repetitions(password), l6,
                     "commands.check.warnings.repetitions",
                     "commands.check.suggestions.avoid_repetitions")
    IN  IF rating.tag = "Panic" THEN rating
        ELSE IF IsSome(l7.panic) THEN l7.panic[1]
        ELSE Ok([score |-> [total |-> total,
                            length_score |-> length_score,
                            diversity_score |-> d.score,
                            complexity_score |-> complexity_score,
                            entropy_score |-> e.score],
                 rating |-> rating.val,
                 has_lowercase |-> d.flags.has_lowercase,
                 has_uppercase |-> d.flags.has_uppercase,
                 has_digit |-> d.flags.has_digit,
                 has_special |-> d.flags.has_special,
                 length |-> length,
                 entropy |-> e.entropy,
                 warnings |-> l7.warnings,
                 suggestions |-> l7.suggestions])

(***************************************************************************)
(* The inputs of the health check.                                         *)
(***************************************************************************)
\* Passwords of up to this many characters are enumerated in full.
MaxPwLen == 3

\* score_to_rating is applied to every score up to this one.
MaxScore == 101

\* calculate_length_score is applied to every length up to this one.
MaxLength == 20

\* A lowercase letter, an uppercase letter, a digit, a special character and
\* a character of no class.
PwAlphabet == {"a", "B", "1", "+", "~"}

\* The passwords of the tests, and passwords that reach every length band
\* and every rating.
TestPasswords ==
    { << >>,
      << "p", "a", "s", "s", "w", "o", "r", "d" >>,
      << "1", "2", "3", "4", "5", "6" >>,
      << "(", "1", "2", "3", "P", "@", "s", "s", "w", "0", "r", "d" >>,
      << "T", "e", "s", "t", "1", "2", "3", "!" >>,
      << "A", "b", "c", "1", "2", "3", "!" >>,
      << "a", "b", "c" >>,
      << "a", "a", "a" >>,
      << "a", "b" >>,
      << "a", "b", "c", "1", "1", "1" >>,
      << "p", "a", "s", "s", "w", "o", "r", "d", "1", "1", "1" >>,
      << "a", "b", "c", "1", "2", "3" >>,
      << "X", "y", "9", "$", "m", "K", "2", "@", "n", "P", "7", "#", "q", "W" >>,
      << "X", "y", "9", "$", "m", "K", "2", "@", "n", "P", "7", "#", "q", "W", "z", "R", "4" >>,
      << "a", "B", "1", "+" >>,
      << "P", "A", "S", "S", "W", "O", "R", "D", "1" >>,
      << "x", "p", "a", "s", "s", "w", "o", "r", "d", "x" >>,
      << "z", "q", "x", "j", "k", "v", "b", "w" >>,
      << "Z", "q", "x", "j", "k", "v", "b", "w", "7" >>,
      << "z", "q", "x", "j", "k", " ", "v", "b", "w" >>,
      << "Z", "q", "x", "j", "k", "v", "b", "w", "m", "f", "h", "g", "7" >> }

Passwords ==
    TestPasswords \cup UNION { [1..n -> PwAlphabet] : n \in 0..MaxPwLen }

\* The texts the list of common passwords is taken from: two of the entries
\* the tests name; entries with capitals, padding, "\r\n" endings and an
\* empty line; no text at all; blank lines only.
CommonTexts ==
    << << "p", "a", "s", "s", "w", "o", "r", "d", "\n", "1", "2", "3", "4", "5", "6", "\n" >>,
       << " ", "P", "a", "s", "s", "W", "o", "r", "d", " ", "\r", "\n", "\n", "Q", "w", "e", "r", "t", "y", "1", "\n", "1", "2", "3", "4", "5", "6", "7", "8" >>,
       << >>,
       << "\n", " ", " ", "\n" >> >>

(***************************************************************************)
(* The entry points of the health check, called as the generator's are.    *)
(***************************************************************************)
ValidCall(candidate) ==
    /\ pc = "idle"
    /\ pc' = "done"
    /\ op' = "is_valid_password"
    /\ args' = [password |-> candidate]
    /\ result' = Ok(is_valid_password(candidate))
    /\ prev' = NoCall
    /\ UNCHANGED << attempt, retry, prk, draws, expansions, corpusVars, outerVars >>

AnalyzeCall(password) ==
    /\ pc = "idle"
    /\ pc' = "done"
    /\ op' = "analyze_password"
    /\ args' = [password |-> password]
    /\ result' = analyze_password(password)
    /\ prev' = NoCall
    /\ UNCHANGED << attempt, retry, prk, draws, expansions, corpusVars, outerVars >>

CommonCall(password) ==
    /\ pc = "idle"
    /\ pc' = "done"
    /\ op' = "has_common_patterns"
    /\ args' = [password |-> password]
    /\ result' = Ok(has_common_patterns(password))
    /\ prev' = NoCall
    /\ UNCHANGED << attempt, retry, prk, draws, expansions, corpusVars, outerVars >>

LengthScoreCall(length) ==
    /\ pc = "idle"
    /\ pc' = "done"
    /\ op' = "calculate_length_score"
    /\ args' = [length |-> length]
    /\ result' = Ok(calculate_length_score(length))
    /\ prev' = NoCall
    /\ UNCHANGED << attempt, retry, prk, draws, expansions, corpusVars, outerVars >>

RatingCall(score) ==
    /\ pc = "idle"
    /\ pc' = "done"
    /\ op' = "score_to_rating"
    /\ args' = [score |-> score]
    /\ result' = score_to_rating(score)
    /\ prev' = NoCall
    /\ UNCHANGED << attempt, retry, prk, draws, expansions, corpusVars, outerVars >>

(***************************************************************************)
(* The callers of the generator: main (src/main.rs) and the App of the     *)
(* terminal interface (src/tui/app.rs).  A caller runs a call of the       *)
(* generator to its end within one step of its own, so the entry points    *)
(* are taken here as operators: the result of the whole call for the       *)
(* random values `tape` the call reads.                                    *)
(***************************************************************************)
\* generate_random_password: `for attempt in 0..MAX_RETRIES`, from the
\* pass `tries` on, when the random source gives every pass the values of `tape`.
RECURSIVE RandomLoop(_, _, _)
RandomLoop(length, tape, tries) ==
    IF tries >= MAX_RETRIES THEN Err(<<"MaxRetriesExceeded">>)
    ELSE LET s == SamplePass(length, tape)
         IN  IF s.res.tag = "Err" THEN s.res
             ELSE IF is_valid_password(s.res.val) THEN Ok(s.res.val)
             ELSE RandomLoop(length, tape, tries + 1)

generate_random_password(length, tape) ==
    IF ~LengthInRange(length) THEN Err(<<"InvalidLength">>)
    ELSE RandomLoop(length, tape, 0)

\* generate_deterministic_password: `for retry in 0..MAX_RETRIES`, from
\* `retry` on.
RECURSIVE DeterministicLoop(_, _, _)
DeterministicLoop(key, service, r) ==
    IF r >= MAX_RETRIES_DETERMINISTIC THEN Err(<<"MaxRetriesExceeded">>)
    ELSE IF ~HkdfExpandOk(HKDF_SHA256_LEN) THEN Err(<<"HkdfExpandError">>)
    ELSE IF ~HkdfFillOk(HKDF_SHA256_LEN, OUTPUT_SIZE) THEN Err(<<"HkdfFillError">>)
    ELSE LET password == DeterministicCandidate(HkdfOkm(key, InfoLabel(service, r)), r)
         IN  IF is_valid_password(password) THEN Ok(password)
             ELSE DeterministicLoop(key, service, r + 1)

generate_deterministic_password(seed, salt, service) ==
    IF seed = "" THEN Err(<<"EmptySeed">>)
    ELSE DeterministicLoop(HkdfExtract(EffectiveSalt(salt), seed), service, 0)

\* generate_phrase_password, with the two OnceLocks as it finds them (en, de)
\* and as it leaves them.
generate_phrase_password(words_count, tape, en, de) ==
    IF ~WordCountInRange(words_count)
    THEN [res |-> Err(<<"InvalidWordCount">>), en |-> en, de |-> de]
    ELSE LET isDe == lang = "de"
             cell == IF isDe
                     THEN get_or_init(de, LoadWordlist(fileDe))
                     ELSE get_or_init(en, LoadWordlist(fileEn))
             words == cell[1]
         IN  [res |-> IF words = << >> THEN Err(<<"EmptyWordlist">>)
                      ELSE PhraseLoop(words, words_count, tape, 0, << >>, 0).res,
              en |-> IF isDe THEN en ELSE cell,
              de |-> IF isDe THEN cell ELSE de]

\* The random values the calls of a batch read: a pass that meets all four
\* classes, and a pass whose first draw fails.
RandOrder == << <<0, 1, 0, 0>>, <<255, 255, 255, 255>>, <<0, 0, 0, 130>>, <<0, 0, 0, 62>> >>

BatchTapes(n) ==
    { [vals |-> [i \in 1..n |-> RandOrder[((i - 1) % Len(RandOrder)) + 1]], failAt |-> 0],
      [vals |-> [i \in 1..n |-> <<0, 0, 0, 0>>], failAt |-> 1] }

\* String::from of the characters typed
RECURSIVE from_chars(_)
from_chars(chars) ==
    IF chars = << >> THEN "" ELSE chars[1] \o from_chars(Tail(chars))

\* std::env::var: the variable S holds a seed, E holds the empty string, no
\* other variable is set.
env_var(name) ==
    IF name = << "S" >> THEN Ok("seed1")
    ELSE IF name = << "E" >> THEN Ok("")
    ELSE Err(<<"NotPresent">>)

\* What one request of a batch asks of the generator: the mode and its
\* parameters.  The result of the call, and the OnceLocks after it.
Generate(mode, length, pattern, words_count, seed, salt, service, tape, en, de) ==
    CASE mode = "Random" ->
           [res |-> generate_random_password(length, tape), en |-> en, de |-> de]
      [] mode = "Pattern" ->
           [res |-> generate_pattern_password(pattern, tape).res, en |-> en, de |-> de]
      [] mode = "Phrase" -> generate_phrase_password(words_count, tape, en, de)
      [] mode = "Deterministic" ->
           [res |-> generate_deterministic_password(seed, salt, service), en |-> en, de |-> de]

\* The number of random values a call reads in one pass.
TapeLen(mode, length, pattern, words_count) ==
    CASE mode = "Random" -> length
      [] mode = "Pattern" -> Len(pattern)
      [] mode = "Phrase" -> words_count
      [] mode = "Deterministic" -> 0

(***************************************************************************)
(* App (src/tui/app.rs).  A key is <<"Enter">>, <<"Esc">>, <<"Up">>,       *)
(* <<"Down">>, <<"Left">>, <<"Right">>, <<"Backspace">>, <<"Tab">> (a key   *)
(* no screen handles) or <<"Char", c>>.  An InputField is <<"None">>,      *)
(* <<"PasswordCheck">>, <<"Generator", field>> or <<"Settings", field>>.   *)
(* A handler works on the world `w`: the App, the two OnceLocks of the     *)
(* generator, the stored configuration, the number of calls of the         *)
(* generator the last batch made, and whether the handler panicked.        *)
(***************************************************************************)
\* config.general.default_mode.to_lowercase() matched against the modes
DefaultMode(default_mode) ==
    CASE default_mode \in {"random", "Random"} -> "Random"
      [] default_mode \in {"pattern", "Pattern"} -> "Pattern"
      [] default_mode \in {"phrase", "Phrase"} -> "Phrase"
      [] default_mode \in {"deterministic", "Deterministic"} -> "Deterministic"
      [] OTHER -> "Random"

\* App::new, from the configuration loaded
App_new(cfg) ==
    [current_screen |-> "Main",
     generator |-> [length |-> cfg.general.default_length,
                    count |-> cfg.general.default_count,
                    mode |-> DefaultMode(cfg.general.default_mode),
                    pattern |-> << >>,
                    words |-> NONE,
                    seed_env |-> << >>,
                    service |-> << >>,
                    salt |-> << >>,
                    selected_mode_index |-> 0,
                    editing_field |-> NONE],
     settings |-> [language |-> cfg.language.lang,
                   auto_save |-> cfg.general.auto_save,
                   default_length |-> cfg.general.default_length,
                   default_count |-> cfg.general.default_count,
                   selected_index |-> 0],
     help |-> [scroll |-> 0],
     exit |-> [exit |-> FALSE],
     generated_passwords |-> << >>,
     password_input |-> << >>,
     selected_index |-> 0,
     show_detailed_check |-> FALSE,
     check_result |-> NONE,
     input_mode |-> "Normal",
     input_field |-> <<"None">>,
     error_message |-> NONE]

\* What a handler returns: the world it leaves and the bool it returns.
Handled(w, ret) == [w |-> w, ret |-> ret]

\* String::pop
pop(s) == IF s = << >> THEN s ELSE SubSeq(s, 1, Len(s) - 1)

ModeOfIndex(i) ==
    CASE i = 0 -> "Random"
      [] i = 1 -> "Pattern"
      [] i = 2 -> "Phrase"
      [] i = 3 -> "Deterministic"
      [] OTHER -> "Random"

handle_editing_input(w, key) ==
    LET a == w.app
    IN  CASE key[1] = "Enter" ->
               LET a1 == [a EXCEPT !.input_mode = "Normal", !.input_field = <<"None">>]
               IN  Handled([w EXCEPT !.app =
                              IF a1.input_field = <<"Generator", "Pattern">>
                              THEN [a1 EXCEPT !.generator.editing_field = NONE]
                              ELSE a1],
                           FALSE)
          [] key[1] = "Esc" ->
               Handled([w EXCEPT !.app.input_mode = "Normal",
                                 !.app.input_field = <<"None">>,
                                 !.app.generator.editing_field = NONE],
                       FALSE)
          [] key[1] = "Char" ->
               Handled(
                 CASE a.input_field = <<"PasswordCheck">> ->
                        [w EXCEPT !.app.password_input = Append(@, key[2])]
                   [] a.input_field = <<"Generator", "Pattern">> ->
                        [w EXCEPT !.app.generator.pattern = Append(@, key[2])]
                   [] a.input_field = <<"Generator", "SeedEnv">> ->
                        [w EXCEPT !.app.generator.seed_env = Append(@, key[2])]
                   [] a.input_field = <<"Generator", "Service">> ->
                        [w EXCEPT !.app.generator.service = Append(@, key[2])]
                   [] a.input_field = <<"Generator", "Salt">> ->
                        [w EXCEPT !.app.generator.salt = Append(@, key[2])]
                   [] a.input_field = <<"Settings", "Language">> ->
                        [w EXCEPT !.app.settings.language = Append(@, key[2])]
                   [] OTHER -> w,
                 FALSE)
          [] key[1] = "Backspace" ->
               Handled(
                 CASE a.input_field = <<"PasswordCheck">> ->
                        [w EXCEPT !.app.password_input = pop(@)]
                   [] a.input_field = <<"Generator", "Pattern">> ->
                        [w EXCEPT !.app.generator.pattern = pop(@)]
                   [] a.input_field = <<"Generator", "SeedEnv">> ->
                        [w EXCEPT !.app.generator.seed_env = pop(@)]
                   [] a.input_field = <<"Generator", "Service">> ->
                        [w EXCEPT !.app.generator.service = pop(@)]
                   [] a.input_field = <<"Generator", "Salt">> ->
                        [w EXCEPT !.app.generator.salt = pop(@)]
                   [] a.input_field = <<"Settings", "Language">> ->
                        [w EXCEPT !.app.settings.language = pop(@)]
                   [] OTHER -> w,
                 FALSE)
          [] OTHER -> Handled(w, FALSE)

handle_main_input_quits(w, key) ==
    LET a == w.app
    IN  CASE key = <<"Char", "q">> \/ key[1] = "Esc" ->
               Handled([w EXCEPT !.app.exit.exit = TRUE], TRUE)
          [] key[1] = "Up" ->
               Handled(IF a.selected_index > 0
                       THEN [w EXCEPT !.app.selected_index = @ - 1] ELSE w, FALSE)
          [] key[1] = "Down" ->
               Handled(IF a.selected_index < 4
                       THEN [w EXCEPT !.app.selected_index = @ + 1] ELSE w, FALSE)
          [] key[1] = "Enter" ->
               Handled(
                 CASE a.selected_index = 0 ->
                        [w EXCEPT !.app.current_screen = "Generator",
                                  !.app.selected_index = 0]
                   [] a.selected_index = 1 ->
                        [w EXCEPT !.app.current_screen = "Check",
                                  !.app.password_input = << >>,
                                  !.app.check_result = NONE,
                                  !.app.input_field = <<"PasswordCheck">>,
                                  !.app.input_mode = "Editing"]
                   [] a.selected_index = 2 ->
                        [w EXCEPT !.app.current_screen = "Settings",
                                  !.app.selected_index = 0]
                   [] a.selected_index = 3 ->
                        [w EXCEPT !.app.current_screen = "Help",
                                  !.app.help.scroll = 0]
                   [] a.selected_index = 4 ->
                        [w EXCEPT !.app.current_screen = "Exit"]
                   [] OTHER -> w,
                 FALSE)
          [] OTHER -> Handled(w, FALSE)

handle_main_input(w, key) ==
    LET a == w.app
    IN  CASE key = <<"Char", "q">> \/ key[1] = "Esc" ->
               Handled([w EXCEPT !.app.current_screen = "Exit"], FALSE)
          [] key[1] = "Up" ->
               Handled(IF a.selected_index > 0
                       THEN [w EXCEPT !.app.selected_index = @ - 1] ELSE w, FALSE)
          [] key[1] = "Down" ->
               Handled(IF a.selected_index < 4
                       THEN [w EXCEPT !.app.selected_index = @ + 1] ELSE w, FALSE)
          [] key[1] = "Enter" ->
               Handled(
                 CASE a.selected_index = 0 ->
                        [w EXCEPT !.app.current_screen = "Generator",
                                  !.app.selected_index = 0]
                   [] a.selected_index = 1 ->
                        [w EXCEPT !.app.current_screen = "Check",
                                  !.app.password_input = << >>,
                                  !.app.check_result = NONE,
                                  !.app.input_field = <<"PasswordCheck">>,
                                  !.app.input_mode = "Editing"]
                   [] a.selected_index = 2 ->
                        [w EXCEPT !.app.current_screen = "Settings",
                                  !.app.selected_index = 0]
                   [] a.selected_index = 3 ->
                        [w EXCEPT !.app.current_screen = "Help",
                                  !.app.help.scroll = 0]
                   [] a.selected_index = 4 ->
                        [w EXCEPT !.app.current_screen = "Exit"]
                   [] OTHER -> w,
                 FALSE)
          [] OTHER -> Handled(w, FALSE)

\* generate_passwords: `for _ in 0..self.generator.count` from iteration i on;
\* tapes[i + 1] holds the random values the call of iteration i reads.
RECURSIVE GenerateLoop(_, _, _)
GenerateLoop(w, i, tapes) ==
    LET g == w.app.generator
    IN  IF i >= g.count THEN w
        ELSE IF g.mode = "Pattern" /\ g.pattern = << >>
        THEN [w EXCEPT !.app.error_message = Some(<<"Pattern is required">>)]
        ELSE IF g.mode = "Deterministic" /\ g.seed_env = << >>
        THEN [w EXCEPT !.app.error_message =
                         Some(<<"Seed environment variable is required">>)]
        ELSE LET var == env_var(g.seed_env)
                 seed == IF g.mode = "Deterministic" /\ var.tag = "Ok" THEN var.val ELSE ""
             IN  IF g.mode = "Deterministic" /\ seed = ""
                 THEN [w EXCEPT !.app.error_message =
                                  Some(<<"Environment variable '", g.seed_env, "' not found">>)]
                 ELSE LET r == Generate(g.mode, g.length, g.pattern, UnwrapOr(g.words, 4),
                                        seed,
                                        IF g.salt = << >> THEN NONE
                                        ELSE Some(from_chars(g.salt)),
                                        IF g.service = << >> THEN NONE
                                        ELSE Some(from_chars(g.service)),
                                        tapes[i + 1], w.WORDLIST_EN, w.WORDLIST_DE)
                          w1 == [w EXCEPT !.WORDLIST_EN = r.en, !.WORDLIST_DE = r.de,
                                          !.calls = @ + 1]
                      IN  IF r.res.tag = "Ok"
                          THEN GenerateLoop(
                                 [w1 EXCEPT !.app.generated_passwords = Append(@, r.res.val)],
                                 i + 1, tapes)
                          ELSE [w1 EXCEPT !.app.error_message =
                                            Some(<<"Error: ", r.res.val>>)]

generate_passwords(w, tapes) ==
    GenerateLoop([w EXCEPT !.app.error_message = NONE,
                           !.app.generated_passwords = << >>,
                           !.calls = 0],
                 0, tapes)

\* check_password; a panic of analyze_password unwinds through the handler.
check_password(w) ==
    LET r == analyze_password(w.app.password_input)
    IN  IF r.tag = "Ok" THEN [w EXCEPT !.app.check_result = Some(r.val)]
        ELSE [w EXCEPT !.panic = TRUE]

\* Config::update_config (src/config.rs) with all four values given: the
\* configuration is loaded, changed, and saved (`ok`: the file system lets
\* it); then the success line is printed.
update_config(w, lang_, length, count, auto_save, ok) ==
    IF ~ok THEN [w |-> w, res |-> Err(<<"ConfigError">>)]
    ELSE LET w1 == [w EXCEPT !.config.language.lang = lang_,
                             !.config.general.default_length = length,
                             !.config.general.default_count = count,
                             !.config.general.auto_save = auto_save]
         IN  IF unwrap(Lingua_t("config.edit.success")).tag = "Panic"
             THEN [w |-> [w1 EXCEPT !.panic = TRUE], res |-> Ok(<< >>)]
             ELSE [w |-> w1, res |-> Ok(<< >>)]

save_settings(w, ok) ==
    LET s == w.app.settings
        u == update_config(w, s.language, s.default_length, s.default_count, s.auto_save, ok)
    IN  IF u.res.tag = "Err"
        THEN [u.w EXCEPT !.app.error_message = Some(<<"Failed to save settings: ", u.res.val>>)]
        ELSE [u.w EXCEPT !.app.error_message = NONE]

MaxIndex(mode) == IF mode = "Deterministic" THEN 3 ELSE 1

\* The arms of KeyCode::Left and KeyCode::Right that change a parameter.
StepParameter(w, d) ==
    LET a == w.app
    IN  CASE a.generator.mode = "Random" ->
               IF a.selected_index = 1
                  /\ (IF d < 0 THEN a.generator.length > 8 ELSE a.generator.length < 64)
               THEN [w EXCEPT !.app.generator.length = @ + d]
               ELSE w
          [] a.generator.mode = "Phrase" ->
               IF a.selected_index = 1
               THEN IF IsSome(a.generator.words)
                    THEN IF (IF d < 0 THEN a.generator.words[1] > 3
                             ELSE a.generator.words[1] < 20)
                         THEN [w EXCEPT !.app.generator.words = Some(@[1] + d)]
                         ELSE w
                    ELSE [w EXCEPT !.app.generator.words =
                                     IF d < 0 THEN Some(3) ELSE Some(4)]
               ELSE w
          [] OTHER -> w

BeginEdit(w, field) ==
    [w EXCEPT !.app.input_field = <<"Generator", field>>,
              !.app.generator.editing_field = Some(field),
              !.app.input_mode = "Editing"]

handle_generator_input(w, key, tapes) ==
    LET a == w.app
        editing == a.input_mode = "Editing"
    IN  CASE key[1] = "Esc" ->
               Handled(IF editing
                       THEN [w EXCEPT !.app.input_mode = "Normal",
                                      !.app.input_field = <<"None">>,
                                      !.app.generator.editing_field = NONE]
                       ELSE [w EXCEPT !.app.current_screen = "Main",
                                      !.app.selected_index = 0,
                                      !.app.error_message = NONE],
                       FALSE)
          [] key[1] = "Up" ->
               Handled(IF ~editing /\ a.selected_index > 0
                       THEN [w EXCEPT !.app.selected_index = @ - 1] ELSE w, FALSE)
          [] key[1] = "Down" ->
               Handled(IF ~editing /\ a.selected_index <= MaxIndex(a.generator.mode)
                       THEN [w EXCEPT !.app.selected_index =
                                        Min(@ + 1, MaxIndex(a.generator.mode))]
                       ELSE w,
                       FALSE)
          [] key[1] = "Left" ->
               Handled(IF editing THEN w
                       ELSE IF a.selected_index = 0 /\ a.generator.selected_mode_index > 0
                       THEN [w EXCEPT !.app.generator.selected_mode_index = @ - 1,
                                      !.app.generator.mode =
                                          ModeOfIndex(a.generator.selected_mode_index - 1)]
                       ELSE StepParameter(w, -1),
                       FALSE)
          [] key[1] = "Right" ->
               Handled(IF editing THEN w
                       ELSE IF a.selected_index = 0 /\ a.generator.selected_mode_index < 3
                       THEN [w EXCEPT !.app.generator.selected_mode_index = @ + 1,
                                      !.app.generator.mode =
                                          ModeOfIndex(a.generator.selected_mode_index + 1)]
                       ELSE StepParameter(w, 1),
                       FALSE)
          [] key[1] = "Enter" ->
               Handled(IF editing
                       THEN [w EXCEPT !.app.input_mode = "Normal",
                                      !.app.input_field = <<"None">>,
                                      !.app.generator.editing_field = NONE]
                       ELSE IF a.selected_index = 0 THEN w
                       ELSE generate_passwords(w, tapes),
                       FALSE)
          [] key = <<"Char", "e">> ->
               Handled(IF editing THEN w
                       ELSE CASE a.generator.mode = "Pattern" /\ a.selected_index = 1 ->
                                   BeginEdit(w, "Pattern")
                              [] a.generator.mode = "Deterministic" /\ a.selected_index = 1 ->
                                   BeginEdit(w, "SeedEnv")
                              [] a.generator.mode = "Deterministic" /\ a.selected_index = 2 ->
                                   BeginEdit(w, "Service")
                              [] a.generator.mode = "Deterministic" /\ a.selected_index = 3 ->
                                   BeginEdit(w, "Salt")
                              [] OTHER -> w,
                       FALSE)
          [] OTHER -> Handled(w, FALSE)

handle_settings_input(w, key, ok) ==
    LET s == w.app.settings
    IN  CASE key[1] = "Esc" ->
               Handled([w EXCEPT !.app.current_screen = "Main", !.app.selected_index = 0],
                       FALSE)
          [] key[1] = "Up" ->
               Handled(IF s.selected_index > 0
                       THEN [w EXCEPT !.app.settings.selected_index = @ - 1] ELSE w, FALSE)
          [] key[1] = "Down" ->
               Handled(IF s.selected_index < 3
                       THEN [w EXCEPT !.app.settings.selected_index = @ + 1] ELSE w, FALSE)
          [] key[1] = "Enter" -> Handled(save_settings(w, ok), FALSE)
          [] key[1] \in {"Left", "Right"} ->
               Handled(
                 CASE s.selected_index = 1 /\ s.default_length > 8 ->
                        [w EXCEPT !.app.settings.default_length = @ - 1]
                   [] s.selected_index = 2 /\ s.default_count > 1 ->
                        [w EXCEPT !.app.settings.default_count = @ - 1]
                   [] s.selected_index = 3 ->
                        [w EXCEPT !.app.settings.auto_save = ~@]
                   [] OTHER -> w,
                 FALSE)
          [] OTHER -> Handled(w, FALSE)

handle_help_input(w, key) ==
    CASE key[1] = "Esc" \/ key = <<"Char", "q">> ->
           Handled([w EXCEPT !.app.current_screen = "Main", !.app.selected_index = 0], FALSE)
      [] key[1] = "Up" ->
           Handled(IF w.app.help.scroll > 0
                   THEN [w EXCEPT !.app.help.scroll = @ - 1] ELSE w, FALSE)
      [] key[1] = "Down" -> Handled([w EXCEPT !.app.help.scroll = @ + 1], FALSE)
      [] OTHER -> Handled(w, FALSE)

handle_check_input(w, key) ==
    IF w.app.input_mode = "Editing"
    THEN CASE key[1] = "Enter" ->
                LET w1 == [w EXCEPT !.app.input_mode = "Normal",
                                    !.app.input_field = <<"None">>]
                IN  Handled(IF w.app.password_input # << >> THEN check_password(w1) ELSE w1,
                            FALSE)
           [] key[1] = "Esc" ->
                Handled([w EXCEPT !.app.input_mode = "Normal",
                                  !.app.input_field = <<"None">>], FALSE)
           [] key[1] = "Char" ->
                Handled([w EXCEPT !.app.password_input = Append(@, key[2])], FALSE)
           [] key[1] = "Backspace" ->
                Handled([w EXCEPT !.app.password_input = pop(@)], FALSE)
           [] OTHER -> Handled(w, FALSE)
    ELSE CASE key[1] = "Esc" ->
                Handled([w EXCEPT !.app.current_screen = "Main",
                                  !.app.selected_index = 0,
                                  !.app.password_input = << >>,
                                  !.app.check_result = NONE,
                                  !.app.input_field = <<"None">>], FALSE)
           [] key[1] = "Enter" ->
                Handled([w EXCEPT !.app.input_mode = "Editing",
                                  !.app.input_field = <<"PasswordCheck">>], FALSE)
           [] key = <<"Char", "d">> ->
                Handled([w EXCEPT !.app.show_detailed_check = ~@], FALSE)
           [] OTHER -> Handled(w, FALSE)

handle_exit_input(w, key) ==
    CASE key = <<"Char", "y">> \/ key[1] = "Enter" ->
           Handled([w EXCEPT !.app.exit.exit = TRUE], TRUE)
      [] key = <<"Char", "n">> \/ key[1] = "Esc" ->
           Handled([w EXCEPT !.app.current_screen = "Main", !.app.selected_index = 0], FALSE)
      [] OTHER -> Handled(w, FALSE)

\* handle_input: what one key does to the world, given the random values a
\* batch would read (tapes) and whether the configuration can be saved (ok).
handle_input(w, key, tapes, ok) ==
    IF w.app.input_mode = "Editing" THEN handle_editing_input(w, key)
    ELSE CASE w.app.current_screen = "Main" -> handle_main_input(w, key)
           [] w.app.current_screen = "Generator" -> handle_generator_input(w, key, tapes)
           [] w.app.current_screen = "Settings" -> handle_settings_input(w, key, ok)
           [] w.app.current_screen = "Help" -> handle_help_input(w, key)
           [] w.app.current_screen = "Check" -> handle_check_input(w, key)
           [] w.app.current_screen = "Exit" -> handle_exit_input(w, key)

(***************************************************************************)
(* main (src/main.rs): the batch of the command line.  `cli` is the parsed *)
(* command line without a subcommand.                                      *)
(***************************************************************************)
\* `for _ in 0..count` from iteration i on: every `?` returns the error and
\* drops `passwords`.
RECURSIVE MainLoop(_, _, _, _, _, _)
MainLoop(cli, i, tapes, passwords, en, de) ==
    IF i >= cli.count THEN [res |-> Ok(passwords), en |-> en, de |-> de, calls |-> i]
    ELSE IF cli.mode = "Pattern" /\ ~IsSome(cli.pattern)
    THEN [res |-> Err(<<"Pattern is required for pattern mode. Use --pattern <PATTERN>">>),
          en |-> en, de |-> de, calls |-> i]
    ELSE IF cli.mode = "Phrase" /\ ~IsSome(cli.words)
    THEN [res |-> Err(<<"Word count is required for phrase mode. Use --words <COUNT>">>),
          en |-> en, de |-> de, calls |-> i]
    ELSE IF cli.mode = "Deterministic" /\ ~IsSome(cli.seed_env)
    THEN [res |-> Err(<<"--seed-env is required for deterministic mode">>),
          en |-> en, de |-> de, calls |-> i]
    ELSE IF cli.mode = "Deterministic" /\ env_var(cli.seed_env[1]).tag = "Err"
    THEN [res |-> Err(<<"Environment variable '", cli.seed_env[1], "' not found">>),
          en |-> en, de |-> de, calls |-> i]
    ELSE LET r == Generate(cli.mode, cli.length, UnwrapOr(cli.pattern, << >>),
                           UnwrapOr(cli.words, 0),
                           IF cli.mode = "Deterministic" THEN env_var(cli.seed_env[1]).val
                           ELSE "",
                           cli.salt, cli.service, tapes[i + 1], en, de)
         IN  IF r.res.tag = "Err"
             THEN [res |-> r.res, en |-> r.en, de |-> r.de, calls |-> i + 1]
             ELSE MainLoop(cli, i + 1, tapes, Append(passwords, r.res.val), r.en, r.de)

\* Generator::save_to_file: the file as the call leaves it.  `fail` is the
\* write that fails: 0 none, 1 the opening or the header, k + 1 the k-th
\* password.  <<"header">> stands for the three header lines.
save_to_file(passwords, fail) ==
    IF fail = 0 THEN [res |-> Ok(<< >>), file |-> << <<"header">> >> \o passwords]
    ELSE IF fail = 1 THEN [res |-> Err(<<"SaveFileError">>), file |-> << >>]
    ELSE [res |-> Err(<<"SaveFileError">>),
          file |-> << <<"header">> >> \o SubSeq(passwords, 1, fail - 2)]

NoOutput == [stdout |-> << >>, file |-> << >>, exit |-> NoResult]

\* What main leaves behind: the lines of passwords printed, the file saved,
\* and what main returned.
MainOutput(cli, batch, fail) ==
    IF batch.tag = "Err" THEN [stdout |-> << >>, file |-> << >>, exit |-> batch]
    ELSE IF cli.save
    THEN LET s == save_to_file(batch.val, fail)
         IN  [stdout |-> << >>, file |-> s.file, exit |-> s.res]
    ELSE LET title == unwrap(Lingua_t("commands.generate.title"))
         IN  IF title.tag = "Panic"
             THEN [stdout |-> << >>, file |-> << >>, exit |-> title]
             ELSE [stdout |-> batch.val, file |-> << >>, exit |-> Ok(<< >>)]

(***************************************************************************)
(* Bounds and inputs of the callers.                                       *)
(***************************************************************************)
\* Key presses of one session of the terminal interface.
MaxKeys == 6

KeyChars == {"q", "e", "d", "y", "n", "S", "U", "a"}

Keys ==
    { <<"Enter">>, <<"Esc">>, <<"Up">>, <<"Down">>, <<"Left">>, <<"Right">>,
      <<"Backspace">>, <<"Tab">> }
      \cup { <<"Char", c>> : c \in KeyChars }

\* The configuration file: the default one, and others a user can have.
DefaultConfig ==
    [general |-> [default_length |-> 16, default_count |-> 1,
                  default_mode |-> "random", auto_save |-> FALSE],
     language |-> [lang |-> <<"e", "n">>]]

Configs ==
    { DefaultConfig,
      [DefaultConfig EXCEPT !.general.default_count = 2],
      [DefaultConfig EXCEPT !.general.default_count = 3, !.general.default_length = 8],
      [DefaultConfig EXCEPT !.general.default_mode = "pattern"],
      [DefaultConfig EXCEPT !.general.default_mode = "Phrase",
                            !.general.default_count = 2],
      [DefaultConfig EXCEPT !.general.default_mode = "deterministic",
                            !.general.default_count = 2] }

NoCli ==
    [mode |-> "Random", length |-> 16, count |-> 1, save |-> FALSE, pattern |-> NONE,
     words |-> NONE, seed_env |-> NONE, service |-> NONE, salt |-> NONE]

\* Command lines of one, two and three passwords in every mode, with and
\* without the parameter the mode needs.
CliArgs ==
    { [NoCli EXCEPT !.count = n, !.save = s] : n \in 0..3, s \in BOOLEAN }
      \cup { [NoCli EXCEPT !.length = 7, !.count = 2] }
      \cup { [NoCli EXCEPT !.mode = "Pattern", !.count = n, !.pattern = p] :
               n \in 1..2, p \in {NONE, Some(<<"U", "D", "D", "L">>), Some(<<"U", "x">>)} }
      \cup { [NoCli EXCEPT !.mode = "Phrase", !.count = 2, !.words = n, !.save = s] :
               n \in {NONE, Some(3), Some(2)}, s \in BOOLEAN }
      \cup { [NoCli EXCEPT !.mode = "Deterministic", !.count = 2, !.seed_env = v,
                           !.service = sv] :
               v \in {NONE, Some(<<"S">>), Some(<<"E">>), Some(<<"X">>)},
               sv \in {NONE, Some("github")} }

\* The random values of the calls of a batch of n passwords.
BatchTapeSeqs(n, len) == [1..n -> BatchTapes(len)]

World ==
    [app |-> app, WORDLIST_EN |-> WORDLIST_EN, WORDLIST_DE |-> WORDLIST_DE,
     config |-> config, calls |-> 0, panic |-> FALSE]

NoHist == [keys |-> 0, key |-> << >>, ret |-> FALSE, calls |-> 0]

callVars == << pc, op, args, attempt, retry, prk, result, draws, expansions, prev >>

\* run (src/tui/mod.rs): the App is built from the configuration.
RunTui ==
    /\ proc = "start"
    /\ proc' = "tui"
    /\ app' = App_new(config)
    /\ UNCHANGED << callVars, corpusVars, COMMON_PASSWORDS, lingua, config, out, hist, threadVars >>

\* The keys whose handling reads random values, and writes the configuration.
Generates(key) ==
    key = <<"Enter">> /\ app.current_screen = "Generator" /\ app.input_mode = "Normal"

Saves(key) ==
    key = <<"Enter">> /\ app.current_screen = "Settings" /\ app.input_mode = "Normal"

\* One turn of run_app: a key is read and handled; handle_input returning
\* true ends the loop.
KeyPress(key) ==
    /\ proc = "tui"
    /\ hist.keys < MaxKeys
    /\ \E tapes \in IF Generates(key)
                    THEN BatchTapeSeqs(app.generator.count,
                                       TapeLen(app.generator.mode, app.generator.length,
                                               app.generator.pattern,
                                               UnwrapOr(app.generator.words, 4)))
                    ELSE {<< >>},
          ok \in IF Saves(key) THEN BOOLEAN ELSE {TRUE} :
         LET r == handle_input(World, key, tapes, ok)
         IN  /\ app' = r.w.app
             /\ WORDLIST_EN' = r.w.WORDLIST_EN
             /\ WORDLIST_DE' = r.w.WORDLIST_DE
             /\ config' = r.w.config
             /\ proc' = IF r.w.panic THEN "panic" ELSE IF r.ret THEN "exit" ELSE "tui"
             /\ hist' = [keys |-> hist.keys + 1, key |-> key, ret |-> r.ret,
                         calls |-> r.w.calls]
    /\ UNCHANGED << callVars, lang, fileEn, fileDe, COMMON_PASSWORDS, lingua, out, threadVars >>

\* main with a command line that has no subcommand.
MainCli(cli) ==
    /\ proc = "start"
    /\ \E tapes \in BatchTapeSeqs(cli.count,
                                  TapeLen(cli.mode, cli.length, UnwrapOr(cli.pattern, << >>),
                                          UnwrapOr(cli.words, 0))),
          fail \in 0..(cli.count + 1) :
         LET b == MainLoop(cli, 0, tapes, << >>, WORDLIST_EN, WORDLIST_DE)
             o == MainOutput(cli, b.res, fail)
         IN  /\ out' = o
             /\ WORDLIST_EN' = b.en
             /\ WORDLIST_DE' = b.de
             /\ proc' = IF o.exit.tag = "Panic" THEN "panic" ELSE "exit"
             /\ hist' = [hist EXCEPT !.calls = b.calls]
    /\ UNCHANGED << callVars, lang, fileEn, fileDe, COMMON_PASSWORDS, lingua, app, config, threadVars >>

(***************************************************************************)
(* Concurrent callers of generate_phrase_password.  Each thread runs the   *)
(* call in steps: the word count check, OnceLock::get_or_init (the state   *)
(* of the lock is read; the thread that finds it incomplete runs the       *)
(* closure, a thread that finds it running blocks until it is complete),   *)
(* then the read of the list and the sampling loop.                        *)
(***************************************************************************)
\* Threads that call concurrently.
MaxThreads == 2

Threads == 1..MaxThreads

ThreadIdle ==
    [pc |-> "idle", words_count |-> 0, words |-> NONE, result |-> NoResult, waited |-> FALSE]

\* `match lang { "de" => WORDLIST_DE, _ => WORDLIST_EN }`
Locale == IF lang = "de" THEN "de" ELSE "en"

Cell(loc) == IF loc = "de" THEN WORDLIST_DE ELSE WORDLIST_EN

File(loc) == IF loc = "de" THEN fileDe ELSE fileEn

OnceState_unguarded(loc) ==
    IF Cell(loc) # << >> THEN "complete" ELSE "incomplete"

\* The state of a OnceLock: complete once the value is stored, running while
\* a thread is in the closure, incomplete before.
OnceState(loc) ==
    IF Cell(loc) # << >> THEN "complete"
    ELSE IF running[loc] THEN "running"
    ELSE "incomplete"

\* generate_phrase_password up to get_wordlist
ThreadCall(t, words_count) ==
    /\ threads[t].pc = "idle"
    /\ threads' = [threads EXCEPT ![t] =
                     IF ~WordCountInRange(words_count)
                     THEN [ThreadIdle EXCEPT !.pc = "done", !.words_count = words_count,
                                             !.result = Err(<<"InvalidWordCount">>)]
                     ELSE [ThreadIdle EXCEPT !.pc = "get", !.words_count = words_count]]
    /\ UNCHANGED << callVars, corpusVars, callerVars, running, inits >>

\* get_or_init: the state is read.
OnceEnter(t) ==
    /\ threads[t].pc = "get"
    /\ LET s == OnceState(Locale)
       IN  /\ threads' = [threads EXCEPT ![t].pc =
                            CASE s = "complete" -> "read"
                              [] s = "running" -> "wait"
                              [] s = "incomplete" -> "init",
                                          ![t].waited = (s = "running")]
           /\ running' = IF s = "incomplete" THEN [running EXCEPT ![Locale] = TRUE]
                         ELSE running
    /\ UNCHANGED << callVars, corpusVars, callerVars, inits >>

\* get_or_init: the closure runs and its value is stored.
OnceInit(t) ==
    /\ threads[t].pc = "init"
    /\ WORDLIST_EN' = IF Locale = "de" THEN WORDLIST_EN ELSE << LoadWordlist(fileEn) >>
    /\ WORDLIST_DE' = IF Locale = "de" THEN << LoadWordlist(fileDe) >> ELSE WORDLIST_DE
    /\ running' = [running EXCEPT ![Locale] = FALSE]
    /\ inits' = [inits EXCEPT ![Locale] = @ + 1]
    /\ threads' = [threads EXCEPT ![t].pc = "read"]
    /\ UNCHANGED << callVars, lang, fileEn, fileDe, callerVars >>

\* get_or_init: a blocked thread goes on when the lock is complete.
OnceWake(t) ==
    /\ threads[t].pc = "wait"
    /\ OnceState(Locale) = "complete"
    /\ threads' = [threads EXCEPT ![t].pc = "read"]
    /\ UNCHANGED << callVars, corpusVars, callerVars, running, inits >>

\* The rest of generate_phrase_password: the list is read through the
\* reference get_or_init returned, and the phrase is sampled from it.
ThreadRead(t) ==
    /\ threads[t].pc = "read"
    /\ \E tape \in BatchTapes(threads[t].words_count) :
         LET words == Cell(Locale)[1]
         IN  threads' = [threads EXCEPT
                           ![t].pc = "done",
                           ![t].words = Some(words),
                           ![t].result =
                               IF words = << >> THEN Err(<<"EmptyWordlist">>)
                               ELSE PhraseLoop(words, threads[t].words_count, tape,
                                               0, << >>, 0).res]
    /\ UNCHANGED << callVars, corpusVars, callerVars, running, inits >>

\* The caller takes the result; the thread can call again.
ThreadReturn(t) ==
    /\ threads[t].pc = "done"
    /\ threads' = [threads EXCEPT ![t] = ThreadIdle]
    /\ UNCHANGED << callVars, corpusVars, callerVars, running, inits >>

(***************************************************************************)
(* The specifications.                                                     *)
(***************************************************************************)
InitCall ==
    /\ pc = "idle"
    /\ op = "none"
    /\ args = << >>
    /\ attempt = 0
    /\ retry = 0
    /\ prk = NoPrk
    /\ result = NoResult
    /\ draws = 0
    /\ expansions = << >>
    /\ prev = NoCall
    /\ WORDLIST_EN = << >>
    /\ WORDLIST_DE = << >>

\* The random and the deterministic entry point, called one after another in
\* any order.
\* Outside the health check: the first list of common passwords, the
\* provider with its language loaded.
InitThreads ==
    /\ threads = [t \in Threads |-> ThreadIdle]
    /\ running = [loc \in {"en", "de"} |-> FALSE]
    /\ inits = [loc \in {"en", "de"} |-> 0]

InitApp ==
    /\ InitThreads
    /\ proc = "start"
    /\ app = NONE
    /\ config = DefaultConfig
    /\ out = NoOutput
    /\ hist = NoHist

InitOuter ==
    /\ COMMON_PASSWORDS = CommonTexts[1]
    /\ lingua = LinguaEn
    /\ InitApp

Init ==
    /\ InitCall
    /\ InitOuter
    /\ lang = "en"
    /\ fileEn = FileTexts[1]
    /\ fileDe = FileTexts[5]

Next ==
    \/ \E length \in Lengths : RandomCall(length)
    \/ RandomAttempt
    \/ RandomExhausted
    \/ \E seed \in Seeds, salt \in Salts, service \in Services :
         DeterministicCall(seed, salt, service)
    \/ DeterministicRetry
    \/ Return

Spec == Init /\ [][Next]_vars

\* The info labels of two expansions, for every two services and retry
\* counters.
InitLabel ==
    /\ pc = "idle"
    /\ op = "none"
    /\ args \in LabelPairs
    /\ attempt = 0
    /\ retry = 0
    /\ prk = NoPrk
    /\ result = NoResult
    /\ draws = 0
    /\ expansions = << >>
    /\ prev = NoCall
    /\ WORDLIST_EN = << >>
    /\ WORDLIST_DE = << >>
    /\ InitOuter
    /\ lang = "en"
    /\ fileEn = FileTexts[1]
    /\ fileDe = FileTexts[5]

NextLabel == InfoLabels

SpecLabel == InitLabel /\ [][NextLabel]_vars

\* The pattern entry point, called again and again.
NextPattern ==
    \/ \E pattern \in Patterns : PatternCall(pattern)
    \/ Return

SpecPattern == Init /\ [][NextPattern]_vars

\* The phrase entry point, called again and again, for every configured
\* language and every pair of word files.
InitPhrase ==
    /\ InitCall
    /\ InitOuter
    /\ lang \in Langs
    /\ \E pair \in FilePairs :
         /\ fileEn = FileTexts[pair[1]]
         /\ fileDe = FileTexts[pair[2]]

NextPhrase ==
    \/ \E words_count \in WordCounts : PhraseCall(words_count)
    \/ Return

SpecPhrase == InitPhrase /\ [][NextPhrase]_vars

\* The validator and the health check, called again and again, for every
\* list of common passwords and every state of the localisation provider.
InitCheck ==
    /\ InitCall
    /\ lang = "en"
    /\ fileEn = FileTexts[1]
    /\ fileDe = FileTexts[5]
    /\ COMMON_PASSWORDS \in Range(CommonTexts)
    /\ lingua \in LinguaStates
    /\ InitApp

NextCheck ==
    \/ \E candidate \in Passwords : ValidCall(candidate)
    \/ \E password \in Passwords : AnalyzeCall(password)
    \/ \E password \in Passwords : CommonCall(password)
    \/ \E score \in 0..MaxScore : RatingCall(score)
    \/ \E length \in 0..MaxLength : LengthScoreCall(length)
    \/ Return

SpecCheck == InitCheck /\ [][NextCheck]_vars

\* The callers of the generator: one process, which is either a session of
\* the terminal interface or one run of main, for every configuration.
InitCallers ==
    /\ InitCall
    /\ lang = "en"
    /\ fileEn = FileTexts[1]
    /\ fileDe = FileTexts[5]
    /\ COMMON_PASSWORDS = CommonTexts[1]
    /\ lingua = LinguaEn
    /\ proc = "start"
    /\ app = NONE
    /\ config \in Configs
    /\ out = NoOutput
    /\ hist = NoHist
    /\ InitThreads

NextCallers ==
    \/ RunTui
    \/ \E key \in Keys : KeyPress(key)
    \/ \E cli \in CliArgs : MainCli(cli)

SpecCallers == InitCallers /\ [][NextCallers]_vars

\* Threads that call generate_phrase_password concurrently, again and
\* again, for every configured language and every pair of word files.
ThreadWordCounts == {2, 3}

NextThreads ==
    \/ \E t \in Threads, words_count \in ThreadWordCounts : ThreadCall(t, words_count)
    \/ \E t \in Threads : OnceEnter(t)
    \/ \E t \in Threads : OnceInit(t)
    \/ \E t \in Threads : OnceWake(t)
    \/ \E t \in Threads : ThreadRead(t)
    \/ \E t \in Threads : ThreadReturn(t)

SpecThreads == InitPhrase /\ [][NextThreads]_vars

(***************************************************************************)
(* What the claims speak of, stated apart from the code above.             *)
(***************************************************************************)
Contains(p, chars) == \E i \in DOMAIN p : p[i] \in chars

LowercaseLetters == Range(SubSeq(CHARSET, 1, 26))

UppercaseLetters == Range(SubSeq(CHARSET, 27, 52))

DecimalDigits == Range(SubSeq(CHARSET, 53, 62))

SpecialCharacters ==
    {"!", "@", "#", "$", "%", "^", "&", "*", "(", ")", "-", "_", "=", "+"}

AllFourClasses(p) ==
    /\ Contains(p, LowercaseLetters)
    /\ Contains(p, UppercaseLetters)
    /\ Contains(p, DecimalDigits)
    /\ Contains(p, SpecialCharacters)

Returned(entry) == pc = "done" /\ op = entry

RandomSourceFailed == result = Err(<<"RandomBytesError">>)

\* C1: a password the random or the deterministic entry point returns holds
\* a lowercase letter, an uppercase letter, a digit and one of the 14 special
\* characters.
C1_ReturnedPasswordIsValid ==
    (pc = "done" /\ op \in {"random", "deterministic"} /\ result.tag = "Ok")
        => AllFourClasses(result.val)

\* A deterministic call returned the candidate of its second expansion.
C1_Witness == Returned("deterministic") /\ result.tag = "Ok" /\ retry = 1

\* C2 as claimed: for a length in 8..64 and a random source that does not
\* fail, generate_random_password returns a string, of that length, that the
\* validator accepts.
C2_AlwaysReturnsPassword ==
    (Returned("random") /\ args.length \in 8..64 /\ ~RandomSourceFailed)
        => /\ result.tag = "Ok"
           /\ Len(result.val) = args.length
           /\ AllFourClasses(result.val)

\* C2 as amended: for a length in 8..64 and a random source that does not
\* fail, generate_random_password returns a string of that length that the
\* validator accepts, or, all 100 sampled candidates having failed the
\* validator, MaxRetriesExceeded.
C2_PasswordOrRetriesExceeded ==
    (Returned("random") /\ args.length \in 8..64 /\ ~RandomSourceFailed)
        => \/ /\ result.tag = "Ok"
              /\ Len(result.val) = args.length
              /\ AllFourClasses(result.val)
              /\ attempt < 100
           \/ /\ result = Err(<<"MaxRetriesExceeded">>)
              /\ attempt = 100
              /\ draws = 100 * args.length

\* A password of 64 characters was returned, on the third attempt.
C2_Witness ==
    Returned("random") /\ args.length = 64 /\ result.tag = "Ok" /\ attempt = 2

\* C3: generate_random_password fails with InvalidLength exactly for a length
\* under 8 or over 64, and has then drawn no random value; only lengths in
\* 8..64 get to the sampling loop.
C3_InvalidLengthIffOutOfRange ==
    /\ Returned("random")
         => /\ result = Err(<<"InvalidLength">>) <=> (args.length < 8 \/ args.length > 64)
            /\ result = Err(<<"InvalidLength">>) => draws = 0
    /\ pc = "random" => (args.length >= 8 /\ args.length <= 64)

\* Length 65 was refused before a draw.
C3_Witness ==
    Returned("random") /\ args.length = 65 /\ result = Err(<<"InvalidLength">>) /\ draws = 0

\* C4: a deterministic call made with the arguments of the deterministic call
\* before it expands the same labels in the same order and returns the same
\* outcome; a password it returns has 20 characters, and the call draws no
\* random value.
C4_SameArgumentsSameOutcome ==
    Returned("deterministic")
        => /\ (prev.called /\ prev.args = args)
                => (result = prev.result /\ expansions = prev.expansions)
           /\ result.tag = "Ok" => Len(result.val) = 20
           /\ draws = 0

\* "test-seed" was called twice with the same salt, and returned a password
\* after a rejected candidate both times.
C4_Witness ==
    /\ Returned("deterministic")
    /\ prev.called
    /\ prev.args = args
    /\ args.seed = "test-seed"
    /\ result.tag = "Ok"
    /\ Len(expansions) = 2

DiffersInOne(a, b) ==
    \/ a.seed # b.seed /\ a.salt = b.salt /\ a.service = b.service
    \/ a.seed = b.seed /\ a.salt # b.salt /\ a.service = b.service
    \/ a.seed = b.seed /\ a.salt = b.salt /\ a.service # b.service

\* C5: two deterministic calls whose arguments differ in the seed alone, in
\* the salt alone or in the service alone return different passwords.
C5_OneArgumentChangedOtherPassword ==
    (/\ Returned("deterministic")
     /\ prev.called
     /\ result.tag = "Ok"
     /\ prev.result.tag = "Ok"
     /\ DiffersInOne(prev.args, args))
        => result.val # prev.result.val

\* "github" after "gitlab", same seed, same salt.
C5_Witness ==
    /\ Returned("deterministic")
    /\ prev.called
    /\ result.tag = "Ok"
    /\ prev.result.tag = "Ok"
    /\ args = [seed |-> "test-seed", salt |-> NONE, service |-> Some("github")]
    /\ prev.args = [seed |-> "test-seed", salt |-> NONE, service |-> Some("gitlab")]

\* C6: generate_deterministic_password fails with EmptySeed exactly for the
\* empty seed, and has then neither extracted a key nor expanded a label; only
\* a call with a seed gets to the expansion loop.
C6_EmptySeedIffSeedEmpty ==
    /\ Returned("deterministic")
         => /\ result = Err(<<"EmptySeed">>) <=> args.seed = ""
            /\ result = Err(<<"EmptySeed">>) => (prk = NoPrk /\ expansions = << >>)
    /\ pc = "deterministic" => args.seed # ""

\* The empty seed was refused although a salt and a service were given.
C6_Witness ==
    /\ Returned("deterministic")
    /\ args = [seed |-> "", salt |-> Some("salt1"), service |-> Some("github")]
    /\ result = Err(<<"EmptySeed">>)

TemplateClass(c) ==
    CASE c = "U" -> UppercaseLetters
      [] c = "L" -> LowercaseLetters
      [] c = "D" -> DecimalDigits
      [] c = "S" -> SpecialCharacters
      [] OTHER -> {}

InAlphabet(c) == c \in {"U", "L", "D", "S"}

\* C7: for a template over U, L, D, S that is not empty, and a random source
\* that does not fail, generate_pattern_password returns a string as long as
\* the template whose i-th character is of the class the template's i-th
\* character names; the validator is not asked.
C7_PatternPositions ==
    (/\ Returned("pattern")
     /\ args.pattern # << >>
     /\ \A i \in DOMAIN args.pattern : InAlphabet(args.pattern[i])
     /\ ~RandomSourceFailed)
        => /\ result.tag = "Ok"
           /\ Len(result.val) = Len(args.pattern)
           /\ \A i \in DOMAIN args.pattern : result.val[i] \in TemplateClass(args.pattern[i])

\* "UUUU" gave four uppercase letters, which the validator would refuse.
C7_Witness ==
    /\ Returned("pattern")
    /\ args.pattern = <<"U", "U", "U", "U">>
    /\ result.tag = "Ok"
    /\ ~AllFourClasses(result.val)

HasBadChar(pattern) == \E i \in DOMAIN pattern : ~InAlphabet(pattern[i])

FirstBad(pattern) ==
    CHOOSE i \in DOMAIN pattern :
        ~InAlphabet(pattern[i]) /\ \A j \in 1..(i - 1) : InAlphabet(pattern[j])

\* C8 as claimed: the empty template fails with EmptyPattern, and a template
\* with a character outside U, L, D, S fails with InvalidPatternCharacter(c),
\* c being the first such character.
C8_BadTemplateAlwaysReported ==
    Returned("pattern")
        => /\ args.pattern = << >> => result = Err(<<"EmptyPattern">>)
           /\ HasBadChar(args.pattern)
                => result = Err(<<"InvalidPatternCharacter",
                                  args.pattern[FirstBad(args.pattern)]>>)

\* C8 as amended: the empty template fails with EmptyPattern, having drawn
\* nothing; a template with a character outside U, L, D, S fails with
\* InvalidPatternCharacter(c), c being the first such character, after one
\* draw for each character before c, unless one of those draws fails, which
\* gives RandomBytesError; no password is returned for either template.
C8_BadTemplateReportedUnlessDrawFails ==
    Returned("pattern")
        => /\ args.pattern = << >> => (result = Err(<<"EmptyPattern">>) /\ draws = 0)
           /\ HasBadChar(args.pattern)
                => LET k == FirstBad(args.pattern)
                   IN  \/ /\ result = Err(<<"InvalidPatternCharacter", args.pattern[k]>>)
                          /\ draws = k - 1
                       \/ /\ RandomSourceFailed
                          /\ draws \in 1..(k - 1)
           /\ (args.pattern = << >> \/ HasBadChar(args.pattern)) => result.tag = "Err"

\* "UX" failed with InvalidPatternCharacter('X').
C8_Witness ==
    /\ Returned("pattern")
    /\ args.pattern = <<"U", "X">>
    /\ result = Err(<<"InvalidPatternCharacter", "X">>)

ActiveCorpus == IF lang = "de" THEN WORDLIST_DE[1] ELSE WORDLIST_EN[1]

\* s is n entries of the corpus with one "-" between neighbours.
RECURSIVE IsJoinOf(_, _, _)
IsJoinOf(s, n, corpus) ==
    /\ n > 0
    /\ \E k \in DOMAIN corpus :
         LET w == corpus[k]
         IN  /\ Len(w) <= Len(s)
             /\ SubSeq(s, 1, Len(w)) = w
             /\ IF n = 1
                THEN Len(s) = Len(w)
                ELSE /\ Len(s) > Len(w)
                     /\ s[Len(w) + 1] = "-"
                     /\ IsJoinOf(SubSeq(s, Len(w) + 2, Len(s)), n - 1, corpus)

Hyphens(s) == Cardinality({ i \in DOMAIN s : s[i] = "-" })

C10_InvalidWordCountAndEmptyWordlist ==
    Returned("phrase")
        => /\ result = Err(<<"InvalidWordCount">>)
                <=> (args.words_count < 3 \/ args.words_count > 20)
           /\ (args.words_count >= 3 /\ args.words_count <= 20)
                => /\ ActiveCorpus = << >> <=> result = Err(<<"EmptyWordlist">>)
                   /\ ActiveCorpus = << >> => draws = 0

\* Twenty words were asked of a German word file of blank lines.
C10_Witness ==
    /\ Returned("phrase")
    /\ lang = "de"
    /\ args.words_count = 20
    /\ result = Err(<<"EmptyWordlist">>)

(***************************************************************************)
(* The health check, as the claims speak of it.                            *)
(***************************************************************************)
\* C11: is_valid_password answers TRUE exactly for a candidate with a
\* lowercase letter, an uppercase letter, a digit and one of the fourteen
\* special characters; the answer depends on the candidate alone;
\* "(123P@ssw0rd" is valid and "password" is not.
C11_ValidIffAllFourClasses ==
    Returned("is_valid_password")
        => /\ result = Ok(AllFourClasses(args.password))
           /\ Cardinality(SpecialCharacters) = 14
           /\ args.password = << "(", "1", "2", "3", "P", "@", "s", "s", "w", "0", "r", "d" >> => result.val
           /\ args.password = << "p", "a", "s", "s", "w", "o", "r", "d" >> => ~result.val

\* "(123P@ssw0rd" was found valid.
C11_Witness ==
    /\ Returned("is_valid_password")
    /\ args.password = << "(", "1", "2", "3", "P", "@", "s", "s", "w", "0", "r", "d" >>
    /\ result = Ok(TRUE)

\* The call came back with a PasswordAnalysis.
Analysed == Returned("analyze_password") /\ result.tag = "Ok"

\* C12: the total of a returned analysis is the sum of its four parts, the
\* length part is in 0..25, the diversity part in 0..30, the complexity part
\* in 0..25, the entropy part in 0..20 and the total in 0..100.
C12_TotalIsSumOfPartsInRange ==
    Analysed
        => LET s == result.val.score
           IN  /\ s.total = s.length_score + s.diversity_score
                              + s.complexity_score + s.entropy_score
               /\ s.length_score \in 0..25
               /\ s.diversity_score \in 0..30
               /\ s.complexity_score \in 0..25
               /\ s.entropy_score \in 0..20
               /\ s.total \in 0..100

\* A password of seventeen characters got every point of every part.
C12_Witness ==
    /\ Analysed
    /\ Len(args.password) > 16
    /\ result.val.score.length_score = 25
    /\ result.val.score.total = 100

\* The key of the band a total lies in.
BandKey(total) ==
    IF total <= 40 THEN "commands.check.score_rating.weak"
    ELSE IF total >= 41 /\ total <= 60 THEN "commands.check.score_rating.medium"
    ELSE IF total >= 61 /\ total <= 80 THEN "commands.check.score_rating.strong"
    ELSE "commands.check.score_rating.very_strong"

\* C13: score_to_rating gives the text of weak for a total of at most 40, of
\* medium for 41..60, of strong for 61..80 and of very strong above 80, and
\* the rating of a returned analysis is the text of the band of its total.
C13_RatingIsBandOfTotal ==
    /\ Returned("score_to_rating") /\ result.tag = "Ok"
         => result.val = lingua[BandKey(args.score)]
    /\ Analysed => result.val.rating = lingua[BandKey(result.val.score.total)]
    /\ BandKey(40) # BandKey(41) /\ BandKey(60) # BandKey(61) /\ BandKey(80) # BandKey(81)

\* A total of 81 was rated very strong.
C13_Witness ==
    /\ Returned("score_to_rating")
    /\ args.score = 81
    /\ result = Ok("very strong")

\* The list of common passwords has an entry.
HasCommonEntry == \E i \in DOMAIN COMMON_PASSWORDS : COMMON_PASSWORDS[i] \notin {" ", "\t", "\n", "\r"}

\* C14 as stated: the analysis of the empty string has total 0, rating weak
\* and entropy 0.0.
C14_EmptyStringScoresZero ==
    Analysed /\ args.password = << >>
        => /\ result.val.score.total = 0
           /\ result.val.rating = lingua["commands.check.score_rating.weak"]
           /\ result.val.entropy = 0

\* C14 as amended: the analysis of the empty string has rating weak, entropy
\* 0.0, no points for length, diversity and entropy, and a total that is its
\* complexity part: 10 (no repetition, but the empty string is found in
\* every entry of the list of common passwords), or 25 when that list has
\* no entry.
C14_EmptyStringScoresComplexityOnly ==
    Analysed /\ args.password = << >>
        => /\ result.val.score.length_score = 0
           /\ result.val.score.diversity_score = 0
           /\ result.val.score.entropy_score = 0
           /\ result.val.score.complexity_score = IF HasCommonEntry THEN 10 ELSE 25
           /\ result.val.score.total = result.val.score.complexity_score
           /\ result.val.rating = lingua["commands.check.score_rating.weak"]
           /\ result.val.entropy = 0

\* The empty string was analysed against a list with entries: total 10.
C14_Witness ==
    /\ Analysed
    /\ args.password = << >>
    /\ HasCommonEntry
    /\ result.val.score.total = 10

\* C15 as stated: analyze_password comes back with a PasswordAnalysis for
\* every input and in every state of the localisation provider; it never
\* panics.
C15_AnalyzeNeverFails ==
    Returned("analyze_password")
        => /\ result.tag = "Ok"
           /\ Len(result.val.warnings) = Len(result.val.suggestions)

\* a is found in b
IsSubstring(a, b) ==
    \E k \in 0..(Len(b) - Len(a)) : \A j \in 1..Len(a) : b[k + j] = a[j]

\* The entries of the list of common passwords: trimmed, lower-cased, not empty.
CommonEntries ==
    { to_lowercase(trim(l)) : l \in Range(lines(COMMON_PASSWORDS)) } \ { << >> }

CommonPattern(p) ==
    \E e \in CommonEntries :
        \/ to_lowercase(p) = e
        \/ IsSubstring(e, to_lowercase(p))
        \/ IsSubstring(to_lowercase(p), e)

WarningChecks(p) ==
    << [fails |-> Len(p) < 8,
        warning |-> "commands.check.warnings.password_too_short",
        suggestion |-> "commands.check.suggestions.password_to_short"],
       [fails |-> ~Contains(p, LowercaseLetters),
        warning |-> "commands.check.warnings.no_lowercase",
        suggestion |-> "commands.check.suggestions.add_lowercase"],
       [fails |-> ~Contains(p, UppercaseLetters),
        warning |-> "commands.check.warnings.no_uppercase",
        suggestion |-> "commands.check.suggestions.add_uppercase"],
       [fails |-> ~Contains(p, DecimalDigits),
        warning |-> "commands.check.warnings.no_digits",
        suggestion |-> "commands.check.suggestions.add_digits"],
       [fails |-> ~Contains(p, SpecialCharacters),
        warning |-> "commands.check.warnings.no_special",
        suggestion |-> "commands.check.suggestions.add_special"],
       [fails |-> CommonPattern(p),
        warning |-> "commands.check.warnings.common_patterns",
        suggestion |-> "commands.check.suggestions.avoid_simple_sequences"],
       [fails |-> \E i \in 1..(Len(p) - 2) : p[i] = p[i + 1] /\ p[i + 1] = p[i + 2],
        warning |-> "commands.check.warnings.repetitions",
        suggestion |-> "commands.check.suggestions.avoid_repetitions"] >>

CheckFails(c) == c.fails

MainBatchFailed ==
    proc = "exit" /\ out.exit.tag = "Err" /\ out.exit.val # <<"SaveFileError">>

\* The last batch of the App ended with the error of a call of the generator.
AppBatchFailed ==
    /\ proc = "tui"
    /\ IsSome(app.error_message)
    /\ app.error_message[1][1] = "Error: "

\* C18: when a call of a batch fails, no password the batch generated before
\* it is printed, saved or left in the list the generator screen shows,
\* neither by main nor by generate_passwords of the App.
C18_NoPartialResults ==
    /\ MainBatchFailed => out.stdout = << >> /\ out.file = << >>
    /\ AppBatchFailed => app.generated_passwords = << >>

\* Enter is pressed while a non-empty password is being typed on the Check
\* screen.
EnterOnTypedPassword ==
    /\ proc = "tui"
    /\ app.current_screen = "Check"
    /\ app.input_mode = "Editing"
    /\ app.input_field = <<"PasswordCheck">>
    /\ app.password_input # << >>
    /\ hist'.keys = hist.keys + 1
    /\ hist'.key = <<"Enter">>

\* C20: on the Check screen, Enter after typing a non-empty password checks
\* it: check_result then holds the analysis of the typed password.
C20_EnterChecksTypedPassword ==
    [][EnterOnTypedPassword
         => app'.check_result = Some(analyze_password(app.password_input).val)]_vars

(***************************************************************************)
(* Concurrent callers.                                                     *)
(***************************************************************************)
\* The list of a locale does not change once it is stored.
StoredListKept ==
    /\ WORDLIST_EN # << >> => WORDLIST_EN' = WORDLIST_EN
    /\ WORDLIST_DE # << >> => WORDLIST_DE' = WORDLIST_DE

\* C19: under every interleaving of concurrent calls, the closure of a
\* locale's OnceLock runs at most once; a thread reads the list only after
\* it was stored, and what it read is the whole list of the file; once
\* stored, the list never changes.
C19_CorpusInitialisedOnceThenReadOnly ==
    /\ [](\A loc \in {"en", "de"} :
            /\ inits[loc] <= 1
            /\ Cell(loc) # << >> => inits[loc] = 1 /\ Cell(loc) = << LoadWordlist(File(loc)) >>)
    /\ [](\A t \in Threads :
            /\ threads[t].pc = "read" => Cell(Locale) = << LoadWordlist(File(Locale)) >>
            /\ IsSome(threads[t].words) => threads[t].words[1] = LoadWordlist(File(Locale)))
    /\ [][StoredListKept]_vars

\* Two threads have read the list, one of them after blocking while the
\* other ran the closure.
C19_Witness ==
    /\ \A t \in {1, 2} : threads[t].pc = "done" /\ IsSome(threads[t].words)
    /\ \E t \in {1, 2} : threads[t].waited
    /\ inits[Locale] = 1

(***************************************************************************)
(* The retry loops.                                                        *)
(***************************************************************************)
\* The sampling loop of generate_random_password is running or has ended.
InRandomLoop == op = "random" /\ pc \in {"random", "done"} /\ args.length \in 8..64

\* C21: with a valid length generate_random_password makes at most 100
\* attempts; every attempt before the last one sampled a whole candidate
\* that failed the validator; a candidate that passes is returned with no
\* draw after it; MaxRetriesExceeded is returned exactly when 100 candidates
\* have failed; a failing draw ends the call with RandomBytesError within the
\* attempt it occurs in; and the loop ends: while it runs a step is possible,
\* and every step either ends the call or counts one more attempt.
C21_RandomLoopBoundedFirstValidReturned ==
    /\ [](InRandomLoop =>
            /\ attempt <= 100
            /\ pc = "random" => draws = attempt * args.length
            /\ pc = "done" =>
                 /\ result.tag = "Ok"
                      => /\ AllFourClasses(result.val)
                         /\ attempt < 100
                         /\ draws = (attempt + 1) * args.length
                 /\ result = Err(<<"MaxRetriesExceeded">>)
                      <=> (attempt = 100 /\ draws = 100 * args.length)
                 /\ result = Err(<<"RandomBytesError">>)
                      => /\ attempt < 100
                         /\ draws > attempt * args.length
                         /\ draws <= (attempt + 1) * args.length
                 /\ result.tag = "Ok" \/ result = Err(<<"MaxRetriesExceeded">>)
                      \/ result = Err(<<"RandomBytesError">>))
    /\ [](pc = "random" => ENABLED (RandomAttempt \/ RandomExhausted))
    /\ [][pc = "random" /\ pc' = "random" => attempt' = attempt + 1]_vars

\* The hundredth attempt returned a password.
C21_Witness ==
    Returned("random") /\ result.tag = "Ok" /\ attempt = 99 /\ draws = 100 * args.length

\* The label with counter r: the tag, "-" and the service if there is one,
\* "-", and r in four bytes, most significant first.
LabelOf(service, r) ==
    <<107, 100, 103, 117, 97, 114, 100, 45, 112, 97, 115, 115, 119, 111, 114, 100>>
      \o (IF service = NONE THEN << >>
          ELSE <<45>> \o (IF service[1] = "github" THEN <<103, 105, 116, 104, 117, 98>>
                          ELSE <<103, 105, 116, 108, 97, 98>>))
      \o <<45, 0, 0, r \div 256, r % 256>>

\* The expansion of the current call for the label with counter r.
OkmOf(r) ==
    (CHOOSE row \in HkdfTable :
        /\ row.salt = (IF args.salt = NONE THEN "kdguard" ELSE args.salt[1])
        /\ row.ikm = args.seed
        /\ row.info = LabelOf(args.service, r)).okm

\* Candidate r: character i (from 0) is the character of CHARSET at
\* okm[((r * 13) mod 32 + i) mod 32] mod m; "?" where CHARSET has no such
\* position.
CandidateOf(r, m) ==
    [i \in 1..20 |->
        LET idx == OkmOf(r)[((((r * 13) % 32) + (i - 1)) % 32) + 1] % m
        IN  IF idx < Len(CHARSET) THEN CHARSET[idx + 1] ELSE "?"]

\* What generate_deterministic_password returns when the bytes are reduced
\* modulo m: the candidate of the smallest retry that passes the validator,
\* after one expansion per retry up to it; MaxRetriesExceeded exactly when
\* the candidates of all 1000 retries failed; never more than 1000
\* expansions.
SmallestValidCandidate(m) ==
    /\ (op = "deterministic" /\ pc \in {"deterministic", "done"})
         => /\ Len(expansions) <= 1000
            /\ \A q \in 1..Len(expansions) : expansions[q] = LabelOf(args.service, q - 1)
    /\ (Returned("deterministic") /\ args.seed # "")
         => /\ result.tag = "Ok"
                 => /\ Len(expansions) = retry + 1
                    /\ result.val = CandidateOf(retry, m)
                    /\ AllFourClasses(CandidateOf(retry, m))
                    /\ \A q \in 0..(retry - 1) : ~AllFourClasses(CandidateOf(q, m))
            /\ result = Err(<<"MaxRetriesExceeded">>)
                 <=> /\ Len(expansions) = 1000
                     /\ \A q \in 0..999 : ~AllFourClasses(CandidateOf(q, m))
            /\ result.tag = "Ok" \/ result = Err(<<"MaxRetriesExceeded">>)

ClassSizes(p) ==
    (IF Contains(p, LowercaseLetters) THEN 26 ELSE 0)
    + (IF Contains(p, UppercaseLetters) THEN 26 ELSE 0)
    + (IF Contains(p, DecimalDigits) THEN 10 ELSE 0)
    + (IF Contains(p, SpecialCharacters) THEN 14 ELSE 0)

\* C23: the entropy analyze_password reports is 0 with score 0 when the
\* password has a character of no class, and otherwise length * log2(size)
\* with score 5, 10, 15 or 20 as it is below 30, below 40, below 50 bits or
\* not, where size is the sum of 26, 26, 10, 14 over the classes present,
\* each counted once.
C23_EntropyFromClassesPresent ==
    Analysed
        => LET p == args.password
               size == ClassSizes(p)
               s == result.val
           IN  IF size = 0
               THEN s.score.entropy_score = 0 /\ s.entropy = 0
               ELSE LET bits == Len(p) * log2(size)
                    IN  /\ s.entropy = bits
                        /\ s.score.entropy_score =
                             (IF bits < 30000000 THEN 5
                              ELSE IF bits < 40000000 THEN 10
                              ELSE IF bits < 50000000 THEN 15
                              ELSE 20)

\* Nine characters of three classes, the lowercase ones between the others:
\* 9 * log2(62) is over 50 bits.
C23_Witness ==
    /\ Analysed
    /\ args.password = << "Z", "q", "x", "j", "k", "v", "b", "w", "7" >>
    /\ result.val.score.entropy_score = 20
    /\ result.val.entropy = 9 * 5954196

\* C24: each of the four flags analyze_password reports is true exactly
\* when the password has a character of its class; the diversity score is 5
\* for every true flag plus 10 when all four are true, hence one of 0, 5, 10,
\* 15, 30; all four flags are true for "Test123!", the score is 30 for
\* "Abc123!" and 5 for "abc".
C24_DiversityFlagsAndScore ==
    Analysed
        => LET p == args.password
               s == result.val
               n == Cardinality({ c \in { LowercaseLetters, UppercaseLetters,
                                           DecimalDigits, SpecialCharacters } :
                                    Contains(p, c) })
           IN  /\ s.has_lowercase <=> Contains(p, LowercaseLetters)
               /\ s.has_uppercase <=> Contains(p, UppercaseLetters)
               /\ s.has_digit <=> Contains(p, DecimalDigits)
               /\ s.has_special <=> Contains(p, SpecialCharacters)
               /\ s.score.diversity_score = 5 * n + (IF n = 4 THEN 10 ELSE 0)
               /\ s.score.diversity_score \in {0, 5, 10, 15, 30}
               /\ p = << "T", "e", "s", "t", "1", "2", "3", "!" >>
                    => s.has_lowercase /\ s.has_uppercase /\ s.has_digit /\ s.has_special
               /\ p = << "A", "b", "c", "1", "2", "3", "!" >> => s.score.diversity_score = 30
               /\ p = << "a", "b", "c" >> => s.score.diversity_score = 5

\* "Abc123!" was analysed: all four flags, 30 points.
C24_Witness ==
    /\ Analysed
    /\ args.password = << "A", "b", "c", "1", "2", "3", "!" >>
    /\ result.val.has_special
    /\ result.val.score.diversity_score = 30

\* p has three identical characters in a row.
RunOfThree(p) ==
    \E i \in 1..Len(p) :
        i + 2 <= Len(p) /\ p[i] = p[i + 1] /\ p[i + 1] = p[i + 2]

\* The analysis returned has the warning of this key.
Warned(key) == lingua[key] \in Range(result.val.warnings)

\* C25: the complexity score is 15 when no entry of the list of common
\* passwords matches, plus 10 when the password has no three identical
\* characters in a row; the repetition warning is emitted exactly for such a
\* run, never for a password of fewer than three characters; the score is 0
\* exactly when the common-pattern and the repetition warning are both
\* emitted.
C25_ComplexityScore ==
    Analysed
        => LET p == args.password
               s == result.val.score.complexity_score
           IN  /\ s = (IF CommonPattern(p) THEN 0 ELSE 15) + (IF RunOfThree(p) THEN 0 ELSE 10)
               /\ Warned("commands.check.warnings.repetitions") <=> RunOfThree(p)
               /\ Len(p) < 3 => ~Warned("commands.check.warnings.repetitions")
               /\ s = 0 <=> /\ Warned("commands.check.warnings.common_patterns")
                            /\ Warned("commands.check.warnings.repetitions")

\* "password111" against a list that holds "password": no points, and both
\* warnings.
C25_Witness ==
    /\ Analysed
    /\ args.password = << "p", "a", "s", "s", "w", "o", "r", "d", "1", "1", "1" >>
    /\ result.val.score.complexity_score = 0
    /\ Warned("commands.check.warnings.common_patterns")
    /\ Warned("commands.check.warnings.repetitions")

\* C26: the length score is 0 for a length of at most 7, 10 for 8..12, 20 for
\* 13..16 and 25 above 16; no shorter length scores more than a longer one;
\* and the length score of a returned analysis is 0 exactly when the analysis
\* carries the too-short warning.
C26_LengthScoreBandsAndWarning ==
    /\ Returned("calculate_length_score") =>
          /\ result.tag = "Ok"
          /\ (args.length <= 7 => result.val = 0)
          /\ (args.length \in 8..12 => result.val = 10)
          /\ (args.length \in 13..16 => result.val = 20)
          /\ (args.length > 16 => result.val = 25)
          /\ \A shorter \in 0..args.length :
                calculate_length_score(shorter) <= result.val
    /\ Analysed =>
          /\ result.val.length = Len(args.password)
          /\ result.val.score.length_score = 0
                <=> Warned("commands.check.warnings.password_too_short")
          /\ result.val.score.length_score = 0 <=> result.val.length <= 7

\* A password of 8 characters: 10 points for its length and no too-short
\* warning.
C26_Witness ==
    /\ Analysed
    /\ args.password = << "p", "a", "s", "s", "w", "o", "r", "d" >>
    /\ result.val.score.length_score = 10
    /\ ~Warned("commands.check.warnings.password_too_short")

(***************************************************************************)
(* The entries of the word corpus.                                         *)
(***************************************************************************)
NotBlank(line) == \E i \in DOMAIN line : ~is_whitespace(line[i])

\* The entries of a loaded cell against the text of its file: none is empty
\* or blank, none begins or ends with whitespace, and they are, in order,
\* the lines of the text that are not blank.
EntriesTrimmedInOrder(cell, text) ==
    cell # << >> =>
        LET entries == cell[1]
            kept == SelectSeq(lines(text), NotBlank)
        IN  /\ \A k \in DOMAIN entries :
                  /\ entries[k] # << >>
                  /\ NotBlank(entries[k])
                  /\ ~is_whitespace(entries[k][1])
                  /\ ~is_whitespace(entries[k][Len(entries[k])])
            /\ Len(entries) = Len(kept)
            /\ \A k \in DOMAIN entries : trim(entries[k]) = trim(kept[k])

\* C27: whatever the text of the word file of a locale, no entry of the
\* loaded corpus is empty or consists of whitespace only, none carries
\* leading or trailing whitespace, and the entries keep the order of the
\* lines of the file.
C27_CorpusEntriesNonEmptyTrimmedInOrder ==
    /\ EntriesTrimmedInOrder(WORDLIST_EN, fileEn)
    /\ EntriesTrimmedInOrder(WORDLIST_DE, fileDe)

(***************************************************************************)
(* The editing markers and the way out of the terminal interface.          *)
(***************************************************************************)
\* run_app holds an App: from its construction on, whatever the last key did.
AppRuns == proc = "tui" \/ hist.keys > 0

\* C28: after any sequence of key presses, an App whose input_mode is Normal
\* has input_field None and generator.editing_field None, and an App whose
\* input_mode is Editing has an input_field other than None.
C28_NormalModeHasNoEditingMarker ==
    AppRuns =>
        /\ app.input_mode = "Normal" =>
              /\ app.input_field = <<"None">>
              /\ app.generator.editing_field = NONE
        /\ app.input_mode = "Editing" => app.input_field # <<"None">>

\* One key is handled while the terminal interface runs.
KeyHandled == proc = "tui" /\ hist'.keys = hist.keys + 1

QuitKeys == { <<"Char", "y">>, <<"Enter">> }

\* C29: whatever the keys pressed before, handle_input returns true, and
\* exit.exit becomes true, only for 'y' or Enter on the Exit screen with
\* input_mode Normal, and run_app ends its loop on no other key; a key pressed
\* while a field is edited neither quits nor changes current_screen.
C29_QuitsOnlyThroughExitScreen ==
    [][KeyHandled =>
         /\ (hist'.ret \/ app'.exit.exit \/ proc' = "exit") =>
               /\ app.current_screen = "Exit"
               /\ app.input_mode = "Normal"
               /\ hist'.key \in QuitKeys
               /\ hist'.ret /\ app'.exit.exit /\ proc' = "exit"
         /\ app.input_mode = "Editing" =>
               /\ ~hist'.ret
               /\ proc' = "tui"
               /\ app'.current_screen = app.current_screen]_vars

\* The Exit screen was opened and 'y' has ended the loop of run_app.
C29_Witness ==
    /\ proc = "exit"
    /\ hist.keys >= 2
    /\ hist.ret
    /\ hist.key = <<"Char", "y">>
    /\ app.current_screen = "Exit"
    /\ app.exit.exit

(***************************************************************************)
(* The info label.                                                         *)
(***************************************************************************)
LabelsBuilt == Returned("info_label")

\* The service and the retry counter read back from the bytes of a label:
\* 16 bytes of tag, "-", and either the 4 bytes of the counter or the bytes
\* of the service, "-" and the 4 bytes of the counter.
ServiceBytesIn(label) ==
    IF Len(label) = 21 THEN NONE ELSE Some(SubSeq(label, 18, Len(label) - 5))

RetryIn(label) ==
    LET n == Len(label)
    IN  ((label[n - 3] * 256 + label[n - 2]) * 256 + label[n - 1]) * 256 + label[n]

ServiceBytesOf(service) ==
    IF IsSome(service) THEN Some(as_bytes(service[1])) ELSE NONE

\* C30: the info label is injective in (service, retry): for the service
\* absent or any string, the empty one and strings that contain "-" among
\* them, and retry counters in 0..999, two labels are the same bytes only for
\* the same service and the same retry counter; the service and the counter
\* can be read back from the bytes of every label.
C30_InfoLabelInjective ==
    LabelsBuilt =>
        /\ expansions[1] = expansions[2] => args[1] = args[2]
        /\ \A k \in 1..2 :
              /\ ServiceBytesIn(expansions[k]) = ServiceBytesOf(args[k].service)
              /\ RetryIn(expansions[k]) = args[k].retry
        /\ ServiceBytesOf(args[1].service) = ServiceBytesOf(args[2].service)
              => args[1].service = args[2].service

\* The label of the empty service and the label of no service, for the
\* retry counter 45: 22 bytes and 21 bytes, each ending in "-", 0, 0, 0, 45.
C30_Witness ==
    /\ LabelsBuilt
    /\ args = << [service |-> Some(""), retry |-> 45],
                 [service |-> NONE, retry |-> 45] >>
    /\ Len(expansions[1]) = 22
    /\ Len(expansions[2]) = 21
    /\ expansions[1] # expansions[2]

====
